---------------------------- MODULE Spec2Model ----------------------------
(***************************************************************************)
(* Community eye-care dashboards (Streamlit): the page-scoped session      *)
(* state, the memoized spreadsheet load and the cascading sidebar filters. *)
(*                                                                         *)
(* The specifications of the module:                                   *)
(*   SpecFilter  the filter engine (common/dynamic_sidebar.py): the cascade*)
(*               of a date filter and a category filter over tables and    *)
(*               widget values drawn from bounded sets;                    *)
(*   SpecDate    the date filter alone, over timestamps at the first and   *)
(*               the last microsecond of a day;                            *)
(*   SpecSetup   setup_page / _hard_reset_on_page_change (common/config.py)*)
(*               on session states and arguments from bounded sets;        *)
(*   SpecCache   load_df_or_stop and the memoized load_excel under file    *)
(*               writes and cache clears;                                  *)
(*   Spec        one user session over the home page and the dashboard     *)
(*               pages: page visits, widget edits, Clear and Refresh;      *)
(*   SpecHelpers the column resolver, the aggregation helpers              *)
(*               (common/helper.py) and the pages' own helpers, each       *)
(*               called once on arguments drawn from bounded sets;         *)
(*   SpecUpload  the upload service (upload.py) under requests with good   *)
(*               and bad tokens, one request at a time;                    *)
(*   SpecConcurrent  two upload requests served at the same time, by the   *)
(*               file operations of each;                                  *)
(*   SpecClient  one run of the batch client (myupload.py), a request a    *)
(*               step; SpecClientRuns is the same run under weak fairness; *)
(*   SpecRender  the dashboards rendered while their data files are        *)
(*               removed, emptied or made unreadable.                      *)
(***************************************************************************)
EXTENDS Integers, Sequences, FiniteSets, TLC

VARIABLES
    df,               \* the table handed to dynamic_sidebar_filters
    col_mapping,      \* RES: logical column -> resolved column or None
    filter_order,     \* the page's list of filter descriptors
    session_state,    \* st.session_state: key -> value
    f,                \* the filtered table the last render produced
    selected_filters, \* the selections summary of the last render
    offered,          \* what each multiselect of the last render offered
    steps,            \* per filter the last render applied: input and output
    raised,           \* the last render ended in an exception
    pc,               \* position of the specification's driver
    pre,              \* session_state before the last operation
    op,               \* the last operation and its arguments
    page,             \* the page whose script ran last
    disk,             \* the data files: path -> modification time and sheet
                      \* (SpecUpload: file name -> content)
    cache,            \* the memo of load_excel (st.cache_data)
    UPLOAD_TOKEN,     \* the upload service's configured secret
    result,           \* what the last call of a helper or of the service returned
    uploads           \* the upload requests in flight (SpecConcurrent), the
                      \* batch client's position and lists (SpecClient)

vars == <<df, col_mapping, filter_order, session_state, f, selected_filters,
          offered, steps, raised, pc, pre, op, page, disk, cache, UPLOAD_TOKEN,
          result, uploads>>

-----------------------------------------------------------------------------
(* Values.  Python values of different types are tagged records, so that   *)
(* a string, a number, a missing value and None stay distinct.             *)

None == [t |-> "none"]
NaN == [t |-> "nan"]
NaT == [t |-> "nat"]
Str(s) == [t |-> "str", v |-> s]
Num(n) == [t |-> "num", n |-> n]
\* pandas.Timestamp: calendar day, second of the day, microsecond
Ts(d, s, u) == [t |-> "ts", day |-> d, sec |-> s, us |-> u]
\* datetime.date
Date(d) == [t |-> "date", day |-> d]

EmptyMap == [k \in {} |-> None]

SecPerDay == 86400
MicroPerSec == 1000000

\* Bounds of the model.
MaxRows == 2
MaxDateRows == 3
MaxDay == 2

-----------------------------------------------------------------------------
(* Sequence helpers.                                                       *)

Range(s) == {s[i] : i \in DOMAIN s}

RECURSIVE SeqSum(_)
SeqSum(s) == IF s = <<>> THEN 0 ELSE Head(s) + SeqSum(Tail(s))

RECURSIVE JoinComma(_)
\* ", ".join(list of strings)
JoinComma(s) ==
    IF s = <<>> THEN ""
    ELSE IF Len(s) = 1 THEN s[1]
    ELSE s[1] \o ", " \o JoinComma(Tail(s))

\* The rows of a table whose positions satisfy mask, in order: subset[mask].
RECURSIVE MaskFrom(_, _, _)
MaskFrom(rows, mask, i) ==
    IF i > Len(rows) THEN <<>>
    ELSE (IF mask[i] THEN <<rows[i]>> ELSE <<>>) \o MaskFrom(rows, mask, i + 1)

\* An indexing that keeps every row
KeepAll(rows, mask) == rows

BoolIndex(rows, mask) == MaskFrom(rows, mask, 1)

-----------------------------------------------------------------------------
(* Tables.  A table is a sequence of rows; a row is a record holding the   *)
(* pandas index label idx and one cell per column of the table.            *)

\* dict.get(key): None for an absent key
Get(m, k) == IF k \in DOMAIN m THEN m[k] ELSE None

\* m[k] = v
Put(m, k, v) == [x \in DOMAIN m \cup {k} |-> IF x = k THEN v ELSE m[x]]

\* A Python tuple of two and a Python list
Pair(a, b) == [t |-> "tuple", a |-> a, b |-> b]
List(items) == [t |-> "list", items |-> items]

_col_present(columns, col) == col.t = "str" /\ col.v \in columns

-----------------------------------------------------------------------------
(* Dates and timestamps.                                                   *)

\* pd.to_datetime(errors="coerce") of one cell: a timestamp stays, a missing
\* value and a text that is no date become NaT
ToDatetimeCell(c) == IF c.t = "ts" THEN c ELSE NaT

_to_datetime(s) == [i \in DOMAIN s |-> ToDatetimeCell(s[i])]

TsLE(a, b) ==
    \/ a.day < b.day
    \/ a.day = b.day /\ a.sec < b.sec
    \/ a.day = b.day /\ a.sec = b.sec /\ a.us <= b.us

\* Series comparison: any comparison with NaT is False
SeriesGE(x, bound) == x.t = "ts" /\ TsLE(bound, x)
SeriesLE(x, bound) == x.t = "ts" /\ TsLE(x, bound)

\* pd.Timestamp(date).normalize(): that day at 00:00:00
Timestamp(d) == Ts(d.day, 0, 0)

PlusDays(ts, n) == Ts(ts.day + n, ts.sec, ts.us)

\* ts - pd.Timedelta(microseconds=1)
MinusMicro(ts) ==
    IF ts.us > 0 THEN Ts(ts.day, ts.sec, ts.us - 1)
    ELSE IF ts.sec > 0 THEN Ts(ts.day, ts.sec - 1, MicroPerSec - 1)
    ELSE Ts(ts.day - 1, SecPerDay - 1, MicroPerSec - 1)

Valid(col_dt) == {i \in DOMAIN col_dt : col_dt[i].t = "ts"}

\* col_dt.min().date() and col_dt.max().date(); NaT when no value is valid
MinDate(col_dt) ==
    IF Valid(col_dt) = {} THEN NaT
    ELSE Date(col_dt[CHOOSE i \in Valid(col_dt) :
                 \A j \in Valid(col_dt) : TsLE(col_dt[i], col_dt[j])].day)

MaxDate(col_dt) ==
    IF Valid(col_dt) = {} THEN NaT
    ELSE Date(col_dt[CHOOSE i \in Valid(col_dt) :
                 \A j \in Valid(col_dt) : TsLE(col_dt[j], col_dt[i])].day)

\* date.isoformat(); the model's days are days of January 2024
isoformat(d) ==
    "2024-01-" \o (IF d.day < 10 THEN "0" ELSE "") \o ToString(d.day)

\* x or y
Or(x, y) == IF x.t = "none" THEN y ELSE x

-----------------------------------------------------------------------------
(* Widgets.  A keyed widget keeps its value in st.session_state under its  *)
(* key: it returns the stored value when the key is present and the value  *)
(* it was given otherwise, and leaves what it returned under the key.      *)

WidgetValue(ss, wkey, value) == IF wkey \in DOMAIN ss THEN ss[wkey] ELSE value

\* st.date_input(value=, min_value=, max_value=, key=): a date of the range
DateInRange(d, mn, mx) == d.t = "date" /\ mn.day <= d.day /\ d.day <= mx.day

\* st.multiselect(options=, default=, key=): a list of offered options, in
\* the order they were chosen
RECURSIVE Keep(_, _)
Keep(items, allowed) ==
    IF items = <<>> THEN <<>>
    ELSE (IF Head(items) \in allowed THEN <<Head(items)>> ELSE <<>>)
         \o Keep(Tail(items), allowed)

-----------------------------------------------------------------------------
(* The filter engine: common/dynamic_sidebar.py.  The filters thread a     *)
(* record through the loop:                                                *)
(*   subset      the working subset                                       *)
(*   selections  the summary dict                                          *)
(*   ss          st.session_state                                          *)
(*   offered     per multiselect key, the (option, count) pairs shown      *)
(*   steps       per filter applied: its key, type, input and output       *)
(*   raised      an exception left the function                            *)
(*   valid       every stored widget value was one its widget can hold     *)

\* Mutant of Ordered: the bounds are used as given
OrderedAsGiven(start, end) == <<start, end>>

\* if start > end: start, end = end, start
Ordered(start, end) ==
    IF start.day > end.day THEN <<end, start>> ELSE <<start, end>>

\* Mutant of EndOfDay: the end bound is the end date at 00:00:00
EndAtMidnight(end) == Timestamp(end)

\* pd.Timestamp(end).normalize() + pd.Timedelta(days=1) - pd.Timedelta(microseconds=1)
EndOfDay(end) == MinusMicro(PlusDays(Timestamp(end), 1))

_apply_date_filter(st, col, key) ==
    LET subset == st.subset
        col_dt == _to_datetime([i \in DOMAIN subset |-> subset[i][col]])
    IN  IF Valid(col_dt) = {} THEN st
        ELSE
        LET mn == MinDate(col_dt)
            mx == MaxDate(col_dt)
            cur == Get(st.ss, key)
            ss1 == IF cur.t = "tuple" THEN st.ss ELSE Put(st.ss, key, Pair(mn, mx))
            kstart == key \o "_start"
            kend == key \o "_end"
            wstart == WidgetValue(ss1, kstart, Or(ss1[key].a, mn))
            wend == WidgetValue(ss1, kend, Or(ss1[key].b, mx))
            ok == DateInRange(wstart, mn, mx) /\ DateInRange(wend, mn, mx)
            start == Ordered(wstart, wend)[1]
            end == Ordered(wstart, wend)[2]
            ss2 == Put(Put(Put(ss1, kstart, wstart), kend, wend), key, Pair(start, end))
            start_dt == Timestamp(start)
            end_dt == EndOfDay(end)
            mask == [i \in DOMAIN subset |->
                       SeriesGE(col_dt[i], start_dt) /\ SeriesLE(col_dt[i], end_dt)]
        IN  IF ~ok THEN [st EXCEPT !.valid = FALSE]
            ELSE [st EXCEPT
                    !.ss = ss2,
                    !.selections = Put(@, key, isoformat(start) \o " -> " \o isoformat(end)),
                    !.subset = BoolIndex(subset, mask)]

\* Series.fillna("unknown") of one cell
fillna(c) == IF c.t = "nan" THEN Str("unknown") ELSE c

\* The order Index.sort_values gives values of one type: text by code point,
\* numbers by value
StrOrder ==
    <<"", "1", "F", "Female", "M", "Male", "Unknown", "a", "b", "c", "nan", "unknown">>

Rank(v) ==
    IF v.t = "num" THEN v.n
    ELSE CHOOSE i \in DOMAIN StrOrder : StrOrder[i] = v.v

RECURSIVE SortedSeq(_)
SortedSeq(S) ==
    IF S = {} THEN <<>>
    ELSE LET m == CHOOSE x \in S : \A y \in S : Rank(x) <= Rank(y)
         IN  <<m>> \o SortedSeq(S \ {m})

\* str(v)
str(v) == IF v.t = "num" THEN ToString(v.n) ELSE v.v

_apply_multiselect_filter(st, col, key) ==
    LET subset == st.subset
        s == [i \in DOMAIN subset |-> fillna(subset[i][col])]
        values == Range(s)
        \* value_counts().sort_index() compares the index values with one
        \* another: text against a number is a TypeError
        mixed == \E x, y \in values : x.t # y.t
        options == SortedSeq(values)
        counts == [v \in values |-> Cardinality({i \in DOMAIN s : s[i] = v})]
        ss1 == IF key \in DOMAIN st.ss THEN st.ss ELSE Put(st.ss, key, List(<<>>))
        stored == IF ss1[key].t = "list" THEN ss1[key].items ELSE <<>>
        current == Keep(stored, values)
        sel == Keep(WidgetValue(ss1, key, List(current)).items, values)
        ss2 == Put(ss1, key, List(sel))
        mask == [i \in DOMAIN subset |-> fillna(s[i]) \in Range(sel)]
    IN  IF mixed THEN [st EXCEPT !.raised = TRUE]
        ELSE [st EXCEPT
                !.ss = ss2,
                !.offered = Put(@, key, [i \in DOMAIN options |->
                                           <<options[i], counts[options[i]]>>]),
                !.selections = Put(@, key, JoinComma([i \in DOMAIN sel |-> str(sel[i])])),
                !.subset = IF sel # <<>> THEN BoolIndex(subset, mask) ELSE subset]

\* f.get("session_key") or f["col"]
FilterKey(fd) ==
    IF "session_key" \in DOMAIN fd /\ fd.session_key # "" THEN fd.session_key
    ELSE fd.col

\* f.get("type", "multiselect")
FilterType(fd) == IF "type" \in DOMAIN fd THEN fd.type ELSE "multiselect"

\* A Clear that leaves the session as it is
LeaveSession(table, columns, mapping, order, ss) == ss

RECURSIVE _init_session_for_filters(_, _, _, _, _)
_init_session_for_filters(table, columns, mapping, order, ss) ==
    IF order = <<>> THEN ss
    ELSE
    LET fd == Head(order)
        key == FilterKey(fd)
        col == Get(mapping, fd.col)
        \* df[col].dropna(), then coerced
        kept == IF _col_present(columns, col)
                THEN SelectSeq([i \in DOMAIN table |-> table[i][col.v]],
                               LAMBDA c : c.t \notin {"nan", "nat"})
                ELSE <<>>
        dt == _to_datetime(kept)
        value ==
            IF FilterType(fd) = "date"
            THEN IF _col_present(columns, col) /\ dt # <<>>
                 THEN Pair(MinDate(dt), MaxDate(dt))
                 ELSE Pair(None, None)
            ELSE List(<<>>)
    IN  _init_session_for_filters(table, columns, mapping, Tail(order),
                                  Put(ss, key, value))

\* One pass of the loop of dynamic_sidebar_filters: the filter fd applied to
\* the state st, and the pass recorded
FilterStep(st, columns, mapping, fd) ==
    LET key == FilterKey(fd)
        resolved == Get(mapping, fd.col)
        applied ==
            IF ~_col_present(columns, resolved) THEN st
            ELSE IF FilterType(fd) = "date"
            THEN _apply_date_filter(st, resolved.v, key)
            ELSE _apply_multiselect_filter(st, resolved.v, key)
    IN  CHOOSE logged \in
            {IF _col_present(columns, resolved) /\ next.valid
             THEN [next EXCEPT !.steps =
                     Append(@, [key |-> key, type |-> FilterType(fd),
                                input |-> st.subset, output |-> next.subset,
                                raised |-> next.raised])]
             ELSE next : next \in {applied}} : TRUE

\* The loop of dynamic_sidebar_filters over filter_order
RECURSIVE FilterLoop(_, _, _, _)
FilterLoop(st, columns, mapping, order) ==
    IF order = <<>> \/ st.raised \/ ~st.valid THEN st
    ELSE CHOOSE out \in
            {FilterLoop(next, columns, mapping, Tail(order)) :
             next \in {FilterStep(st, columns, mapping, Head(order))}} : TRUE

\* dynamic_sidebar_filters(df, col_mapping, filter_order), with df.columns, the session
\* state it reads and whether the Clear button was pressed for this run.
\* A pressed Clear reinitializes the session and asks for a rerun.
dynamic_sidebar_filters(table, columns, mapping, order, ss, clear) ==
    IF clear
    THEN [subset |-> table, selections |-> EmptyMap, offered |-> EmptyMap,
          ss |-> _init_session_for_filters(table, columns, mapping, order, ss),
          steps |-> <<>>, raised |-> FALSE, valid |-> TRUE, rerun |-> TRUE]
    ELSE FilterLoop([subset |-> table, selections |-> EmptyMap, offered |-> EmptyMap,
                     ss |-> ss, steps |-> <<>>, raised |-> FALSE, valid |-> TRUE,
                     rerun |-> FALSE],
                    columns, mapping, order)

-----------------------------------------------------------------------------
(* SpecFilter and SpecDate: the filter engine on bounded inputs.  A table  *)
(* of bounded length is built row by row; a render then calls             *)
(* dynamic_sidebar_filters once with a column mapping, a filter list and   *)
(* the widget values a user can have set.  SpecFilter runs the cascade of  *)
(* a date filter and a category filter over timestamps at midnight;        *)
(* SpecDate runs the date filter alone over timestamps at the first and    *)
(* the last microsecond of each day.                                       *)

\* The columns of the tables of SpecFilter and SpecDate
Columns == {"date", "pec"}

Days == 1 .. MaxDay

Midnights == {Ts(d, 0, 0) : d \in Days}
LastMicros == {Ts(d, SecPerDay - 1, MicroPerSec - 1) : d \in Days}

\* Cells of the date column: a timestamp, a missing value, a text that is
\* no date
DateCells == {NaN, Str("n/a")} \cup Midnights \cup LastMicros
CascadeDateCells == {NaN} \cup Midnights

\* Cells of the category column: text, a number, a missing value
PecCells == {NaN, Str("a"), Str("unknown"), Num(1)}

\* The filter descriptors the pages pass (pages/Cataract_Dashboard.py)
FDate == [col |-> "date", label |-> "Date", type |-> "date"]
FPec == [col |-> "pec", label |-> "Team", type |-> "multiselect"]

\* RES as resolved_cols returns it: a column of the table or None
Resolved == [date |-> Str("date"), pec |-> Str("pec")]

\* The calls of the cascade: the pages' order and its reverse with every
\* column resolved, a column left unresolved, a column the table lacks
Calls ==
    {[order |-> <<FDate, FPec>>, mapping |-> Resolved],
     [order |-> <<FPec, FDate>>, mapping |-> Resolved],
     [order |-> <<FDate, FPec>>, mapping |-> [date |-> Str("date"), pec |-> None]],
     [order |-> <<FDate, FPec>>, mapping |-> [date |-> Str("screendate"),
                                              pec |-> Str("pec")]]}

\* Lists without repetition over a set of values
RECURSIVE Perms(_)
Perms(S) ==
    {<<>>} \cup UNION {{<<x>> \o q : q \in Perms(S \ {x})} : x \in S}

\* The widget state a user's choices leave: both date inputs and the
\* multiselect's list over the values of the table's category column
Seeds(table) ==
    {EmptyMap}
    \cup {[k \in {"date_start", "date_end", "pec"} |->
             IF k = "date_start" THEN Date(a)
             ELSE IF k = "date_end" THEN Date(b)
             ELSE List(q)] :
          a \in Days, b \in Days,
          q \in Perms({fillna(table[i].pec) : i \in DOMAIN table})}

\* The multiselect's list alone
PecSeeds(table) ==
    {EmptyMap}
    \cup {[k \in {"pec"} |-> List(q)] :
          q \in Perms({fillna(table[i].pec) : i \in DOMAIN table})}

\* The date inputs alone
DateSeeds ==
    {EmptyMap}
    \cup {[k \in {"date_start", "date_end"} |->
             IF k = "date_start" THEN Date(a) ELSE Date(b)] :
          a \in Days, b \in Days}

InitFilter ==
    /\ df = <<>>
    /\ col_mapping = [date |-> None, pec |-> None]
    /\ filter_order = <<>>
    /\ session_state = EmptyMap
    /\ f = <<>>
    /\ selected_filters = EmptyMap
    /\ offered = EmptyMap
    /\ steps = <<>>
    /\ raised = FALSE
    /\ pc = "build"
    /\ pre = EmptyMap
    /\ op = [name |-> "init"]
    /\ page = "none"
    /\ disk = EmptyMap
    /\ cache = EmptyMap
    /\ UPLOAD_TOKEN = <<>>
    /\ result = None
    /\ uploads = <<>>

\* One call of dynamic_sidebar_filters; a stored widget value its widget
\* cannot hold is no input
Call(m, o, seed) ==
    \E r \in {dynamic_sidebar_filters(df, Columns, m, o, seed, FALSE)} :
        /\ r.valid
        /\ col_mapping' = m
        /\ filter_order' = o
        /\ pre' = seed
        /\ session_state' = r.ss
        /\ f' = r.subset
        /\ selected_filters' = r.selections
        /\ offered' = r.offered
        /\ steps' = r.steps
        /\ raised' = r.raised
        /\ pc' = "done"
        /\ op' = [name |-> "render"]
        /\ UNCHANGED <<uploads, UPLOAD_TOKEN, result, df, page, disk, cache>>

AddRow ==
    /\ pc = "build"
    /\ Len(df) < MaxRows
    /\ \E d \in CascadeDateCells, c \in PecCells :
         df' = Append(df, [idx |-> Len(df), date |-> d, pec |-> c])
    /\ UNCHANGED <<uploads, UPLOAD_TOKEN, result,
                   col_mapping, filter_order, session_state, f, selected_filters,
                   offered, steps, raised, pc, pre, op, page, disk, cache>>

\* The widgets a call shows are those of its resolved columns
SeedsFor(mapping, table) ==
    IF ~_col_present(Columns, mapping.pec) THEN DateSeeds
    ELSE IF ~_col_present(Columns, mapping.date) THEN PecSeeds(table)
    ELSE Seeds(table)

Render ==
    /\ pc = "build"
    /\ \E c \in Calls :
         \E seed \in SeedsFor(c.mapping, df) : Call(c.mapping, c.order, seed)

NextFilter == AddRow \/ Render

SpecFilter == InitFilter /\ [][NextFilter]_vars

AddDateRow ==
    /\ pc = "build"
    /\ Len(df) < MaxDateRows
    /\ \E d \in DateCells :
         df' = Append(df, [idx |-> Len(df), date |-> d, pec |-> Str("a")])
    /\ UNCHANGED <<uploads, UPLOAD_TOKEN, result,
                   col_mapping, filter_order, session_state, f, selected_filters,
                   offered, steps, raised, pc, pre, op, page, disk, cache>>

RenderDate ==
    /\ pc = "build"
    /\ \E seed \in DateSeeds : Call(Resolved, <<FDate>>, seed)

NextDate == AddDateRow \/ RenderDate

SpecDate == InitFilter /\ [][NextDate]_vars

-----------------------------------------------------------------------------
(* Claims about the date filter (SpecDate).                                *)

\* The last render's date filter showed its inputs and filtered by them: it
\* found a valid date, so it has a start and an end and recorded a summary
DateRan ==
    /\ pc = "done"
    /\ "date" \in DOMAIN selected_filters
    /\ steps[1].type = "date"

\* The pair the render left under the filter's key
StoredRange == session_state["date"]

\* The widget values of a seed with the two date inputs exchanged
Exchanged(seed) ==
    [k \in DOMAIN seed |->
       IF k = "date_start" THEN seed["date_end"]
       ELSE IF k = "date_end" THEN seed["date_start"]
       ELSE seed[k]]

StartAfterEnd ==
    /\ "date_start" \in DOMAIN pre
    /\ pre["date_start"].day > pre["date_end"].day

\* C7: a date filter given start > end leaves the same filtered subset, the
\* same stored selection and the same summary as the filter given the two
\* dates in (min, max) order.
C7_SwappedBoundsSameResult ==
    (DateRan /\ StartAfterEnd) =>
        LET alt == dynamic_sidebar_filters(df, Columns, col_mapping, filter_order,
                                           Exchanged(pre), FALSE)
        IN  /\ alt.subset = f
            /\ alt.ss["date"] = StoredRange
            /\ alt.selections = selected_filters
            /\ StoredRange.a.day <= StoredRange.b.day

C7_Witness ==
    /\ DateRan
    /\ StartAfterEnd
    /\ f # <<>>
    /\ Len(f) < Len(df)

\* The claim's interval, written out: [start 00:00:00, end 23:59:59.999999]
InClosedRange(c, start, end) ==
    /\ c.t = "ts"
    /\ TsLE(Ts(start.day, 0, 0), c)
    /\ TsLE(c, Ts(end.day, SecPerDay - 1, MicroPerSec - 1))

\* C8: the date filter keeps a row if and only if its date-time lies in
\* [start 00:00:00, end 23:59:59.999999]: a row on the end date is kept at
\* any time of day, a row at 00:00:00 of the next day is dropped.
C8_InclusiveRange ==
    DateRan =>
        /\ steps[1].output =
             SelectSeq(steps[1].input,
                       LAMBDA r : InClosedRange(r.date, StoredRange.a, StoredRange.b))
        /\ \A i \in DOMAIN df :
             /\ (df[i].date.t = "ts" /\ df[i].date.day = StoredRange.b.day
                 /\ StoredRange.a.day <= StoredRange.b.day)
                    => df[i] \in Range(f)
             /\ df[i].date = Ts(StoredRange.b.day + 1, 0, 0) => df[i] \notin Range(f)

C8_Witness ==
    /\ DateRan
    /\ \E i, j \in DOMAIN df :
         /\ df[i].date = Ts(StoredRange.b.day, SecPerDay - 1, MicroPerSec - 1)
         /\ df[i] \in Range(f)
         /\ df[j].date = Ts(StoredRange.b.day + 1, 0, 0)
         /\ df[j] \notin Range(f)

\* The rows of the table with a valid date, and the last render left at
\* the default range: the first to the last day of the valid dates
WithValidDate == SelectSeq(df, LAMBDA r : ToDatetimeCell(r.date).t = "ts")
AtFullRange ==
    /\ pc = "done"
    /\ steps[1].type = "date"
    /\ WithValidDate # <<>> =>
         LET col_dt == _to_datetime([i \in DOMAIN df |-> df[i].date])
         IN  StoredRange = Pair(MinDate(col_dt), MaxDate(col_dt))

\* C29: a date filter at its default full range keeps exactly the rows with
\* a valid date: rows with a missing or unparseable date are dropped when
\* some row has a valid date, and when no row has one the table comes back
\* unchanged with no summary entry; so the result equals the input only if
\* no date is missing or no date is valid.
C29_FullRangeKeepsValidDates ==
    AtFullRange =>
        /\ WithValidDate # <<>> =>
             f = WithValidDate /\ "date" \in DOMAIN selected_filters
        /\ WithValidDate = <<>> =>
             f = df /\ "date" \notin DOMAIN selected_filters
        /\ f = df <=> (WithValidDate = df \/ WithValidDate = <<>>)

\* A default range that dropped a row without a date and one whose date is
\* no date, and kept a row late on the last day
C29_Witness ==
    /\ AtFullRange
    /\ pre = EmptyMap
    /\ Len(f) = 1
    /\ f[1].date.t = "ts"
    /\ f[1].date.sec > 0
    /\ \E i, j \in DOMAIN df : df[i].date = NaN /\ df[j].date.t = "str"

\* A table without a valid date comes back whole
C29_NoValidDate ==
    /\ AtFullRange
    /\ WithValidDate = <<>>
    /\ Len(df) = MaxDateRows
    /\ f = df

-----------------------------------------------------------------------------
(* Claims about the cascade (SpecFilter).                                  *)

\* The multiselect steps the last render reached
PecSteps == {i \in DOMAIN steps : steps[i].type = "multiselect"}

\* What the multiselect returned; nothing when it was not reached or raised
Selected ==
    IF "pec" \in DOMAIN session_state /\ "pec" \in DOMAIN selected_filters
    THEN session_state["pec"].items
    ELSE <<>>

\* The user had nothing selected
NothingSelected == Get(pre, "pec") \in {None, List(<<>>)}

Missing(rows) == {i \in DOMAIN rows : rows[i].pec.t = "nan"}

IsSubSeq(a, b) ==
    /\ Range(a) \subseteq Range(b)
    /\ \A i, j \in DOMAIN a : i < j => a[i].idx < a[j].idx

\* The rows of the input that satisfy every active filter: a date filter is
\* active when it recorded a range, a multiselect when it holds a selection
Satisfies(r) ==
    /\ "date" \in DOMAIN selected_filters
          => InClosedRange(r.date, StoredRange.a, StoredRange.b)
    /\ Selected # <<>>
          => (IF r.pec.t = "nan" THEN Str("unknown") ELSE r.pec) \in Range(Selected)

\* The multiset of values a multiselect step's input holds, missing as "unknown"
ValuesIn(rows) == {IF rows[i].pec.t = "nan" THEN Str("unknown") ELSE rows[i].pec :
                     i \in DOMAIN rows}

CountIn(rows, v) ==
    Cardinality({i \in DOMAIN rows :
                   (IF rows[i].pec.t = "nan" THEN Str("unknown") ELSE rows[i].pec) = v})

Returned(i) == ~steps[i].raised

\* C5: a multiselect with an empty selection is a no-op: for any table it
\* returns the working subset unchanged, row for row and in order.
C5_EmptySelectionNoOp ==
    (pc = "done" /\ NothingSelected) =>
        \A i \in PecSteps : Returned(i) /\ steps[i].output = steps[i].input

\* C5, for the renders whose multiselect returns
C5_OnReturn ==
    (pc = "done" /\ NothingSelected) =>
        \A i \in PecSteps : Returned(i) => steps[i].output = steps[i].input

\* C6: the filtered table is exactly the rows of the input that satisfy
\* every active filter, in input order, and each filter's output is a
\* subset of its input.
C6_ConjunctionOfFilters ==
    pc = "done" =>
        /\ ~raised
        /\ f = SelectSeq(df, Satisfies)
        /\ \A i \in DOMAIN steps : IsSubSeq(steps[i].output, steps[i].input)

\* C6, for the renders that return
C6_OnReturn ==
    (pc = "done" /\ ~raised) =>
        /\ f = SelectSeq(df, Satisfies)
        /\ \A i \in DOMAIN steps : IsSubSeq(steps[i].output, steps[i].input)

\* C9: a missing value counts as the category "unknown": "unknown" is
\* offered whenever a missing value exists, and selecting "unknown" keeps
\* exactly the rows whose value is missing or literally "unknown".
C9_MissingIsUnknown ==
    pc = "done" =>
        \A i \in PecSteps :
            Missing(steps[i].input) # {} =>
                /\ Returned(i)
                /\ \E k \in DOMAIN offered["pec"] : offered["pec"][k][1] = Str("unknown")
                /\ Selected = <<Str("unknown")>> =>
                     steps[i].output =
                       SelectSeq(steps[i].input,
                                 LAMBDA r : r.pec \in {NaN, Str("unknown")})

\* C9, for the renders whose multiselect returns
C9_OnReturn ==
    pc = "done" =>
        \A i \in PecSteps :
            (Missing(steps[i].input) # {} /\ Returned(i)) =>
                /\ \E k \in DOMAIN offered["pec"] : offered["pec"][k][1] = Str("unknown")
                /\ Selected = <<Str("unknown")>> =>
                     steps[i].output =
                       SelectSeq(steps[i].input,
                                 LAMBDA r : r.pec \in {NaN, Str("unknown")})

\* The offered options are the distinct values of the step's input with
\* their counts, and a non-empty selection among them keeps some row
OptionsOf(i) ==
    /\ {offered["pec"][k] : k \in DOMAIN offered["pec"]}
         = {<<v, CountIn(steps[i].input, v)>> : v \in ValuesIn(steps[i].input)}
    /\ Len(offered["pec"]) = Cardinality(ValuesIn(steps[i].input))
    /\ Selected # <<>> => steps[i].output # <<>>

\* C10: every multiselect offers exactly the distinct values present in the
\* subset the filters before it left, each with its count there; hence a
\* non-empty selection from the offered options leaves a non-empty subset.
C10_OptionsFromWorkingSubset ==
    pc = "done" => \A i \in PecSteps : Returned(i) /\ OptionsOf(i)

\* C10, for the renders whose multiselect returns
C10_OnReturn ==
    pc = "done" => \A i \in PecSteps : Returned(i) => OptionsOf(i)

-----------------------------------------------------------------------------
(* Page-scoped session state (common/config.py, common/helper.py).         *)

\* Python's True
PyTrue == [t |-> "bool", v |-> TRUE]

\* bool(v) of a session value
Truthy(v) ==
    CASE v.t = "none" -> FALSE
      [] v.t = "bool" -> v.v
      [] v.t = "num" -> v.n # 0
      [] v.t = "str" -> v.v # ""
      [] v.t = "list" -> v.items # <<>>
      [] v.t = "set" -> v.items # {}
      [] OTHER -> TRUE

\* The entries of m under the keys in K
Restrict(m, K) == [k \in DOMAIN m \cap K |-> m[k]]

\* A reset that keeps nothing
ResetEverything(ss, page_key, keep) ==
    Put(EmptyMap, "_cfg_current_page_key", Str(page_key))

_hard_reset_on_page_change(ss, page_key, keep) ==
    LET prev == Get(ss, "_cfg_current_page_key")
        keep_keys == keep \cup {"_cfg_current_page_key", "_cfg_filters_css_injected"}
    IN  IF prev = Str(page_key) THEN ss
        ELSE Put(Restrict(ss, keep_keys), "_cfg_current_page_key", Str(page_key))

\* setup_page(page_title, page_key=, keep_state_keys=) on session state ss
setup_page(ss, page_title, page_key, keep_state_keys) ==
    _hard_reset_on_page_change(
        ss,
        IF Truthy(page_key) THEN page_key.v ELSE page_title,
        IF Truthy(keep_state_keys) THEN Range(keep_state_keys.items) ELSE {})

\* inject_global_dataframe_css(): the flag it leaves in the session
inject_global_dataframe_css(ss) ==
    IF Truthy(Get(ss, "_global_df_css_injected")) THEN ss
    ELSE Put(ss, "_global_df_css_injected", PyTrue)

\* _ensure_chip_css_once(): the flag it leaves in the session
_ensure_chip_css_once(ss) ==
    IF Truthy(Get(ss, "_cfg_filters_css_injected")) THEN ss
    ELSE Put(ss, "_cfg_filters_css_injected", PyTrue)

-----------------------------------------------------------------------------
(* SpecSetup: setup_page on session states built key by key, with page     *)
(* titles, page keys and keep lists drawn from bounded sets.               *)

PageKeys == {"cataract_management", "primary_eye_care", "school_program"}

PageTitles == {"Dashboard", "primary_eye_care"}

\* Keys a session can hold, and the values put under them
SetupKeys ==
    {"_cfg_current_page_key", "_cfg_filters_css_injected",
     "_global_df_css_injected", "date", "pec"}

SetupValues(k) ==
    CASE k = "_cfg_current_page_key" -> {Str(p) : p \in PageKeys \cup PageTitles}
      [] k = "date" -> {Pair(Date(1), Date(MaxDay))}
      [] k = "pec" -> {List(<<Str("a")>>)}
      [] OTHER -> {PyTrue}

PageKeyArgs == {None, Str("")} \cup {Str(p) : p \in PageKeys}

KeepArgs == {None, List(<<>>), List(<<"pec">>), List(<<"date", "_cfg_current_page_key">>)}

InitSetup ==
    /\ df = <<>>
    /\ col_mapping = EmptyMap
    /\ filter_order = <<>>
    /\ session_state = EmptyMap
    /\ f = <<>>
    /\ selected_filters = EmptyMap
    /\ offered = EmptyMap
    /\ steps = <<>>
    /\ raised = FALSE
    /\ pc = "setup"
    /\ pre = EmptyMap
    /\ op = [name |-> "init"]
    /\ page = "none"
    /\ disk = EmptyMap
    /\ cache = EmptyMap
    /\ UPLOAD_TOKEN = <<>>
    /\ result = None
    /\ uploads = <<>>

\* st.session_state[k] = v
SetItem ==
    /\ \E k \in SetupKeys : \E v \in SetupValues(k) :
         session_state' = Put(session_state, k, v)
    /\ pre' = session_state
    /\ op' = [name |-> "setitem"]
    /\ UNCHANGED <<uploads, UPLOAD_TOKEN, result,
                   df, col_mapping, filter_order, f, selected_filters, offered,
                   steps, raised, pc, page, disk, cache>>

SetupPage ==
    /\ \E title \in PageTitles, key \in PageKeyArgs, keep \in KeepArgs :
         /\ session_state' = setup_page(session_state, title, key, keep)
         /\ op' = [name |-> "setup_page", page_title |-> title, page_key |-> key,
                   keep_state_keys |-> keep]
    /\ pre' = session_state
    /\ UNCHANGED <<uploads, UPLOAD_TOKEN, result,
                   df, col_mapping, filter_order, f, selected_filters, offered,
                   steps, raised, pc, page, disk, cache>>

NextSetup == SetItem \/ SetupPage

SpecSetup == InitSetup /\ [][NextSetup]_vars

\* The page key the last setup_page call stands for: its page_key, or its
\* page_title where no page_key was given
GivenPageKey ==
    IF op.page_key \in {None, Str("")} THEN op.page_title ELSE op.page_key.v

\* The keys the last setup_page call may keep across a page change
Allowlist ==
    {"_cfg_current_page_key", "_cfg_filters_css_injected"}
    \cup (IF op.keep_state_keys = None THEN {} ELSE Range(op.keep_state_keys.items))

PageChanged == Get(pre, "_cfg_current_page_key") # Str(GivenPageKey)

\* C2: setup_page with a page key other than the recorded one removes every
\* session key outside the allowlist (the two _cfg keys and the caller's
\* keep keys), leaves the allowlisted keys' values as they were and records
\* the new page key; with the recorded page key it leaves the session as it
\* was.
C2_HardResetFrame ==
    op.name = "setup_page" =>
        IF PageChanged
        THEN /\ DOMAIN session_state =
                   (DOMAIN pre \cap Allowlist) \cup {"_cfg_current_page_key"}
             /\ \A k \in DOMAIN session_state \ {"_cfg_current_page_key"} :
                   session_state[k] = pre[k]
             /\ session_state["_cfg_current_page_key"] = Str(GivenPageKey)
        ELSE session_state = pre

\* A page change that removed a filter key and kept the style flag and a
\* caller's keep key
C2_Witness ==
    /\ op.name = "setup_page"
    /\ PageChanged
    /\ "_cfg_current_page_key" \in DOMAIN pre
    /\ "date" \in DOMAIN pre /\ "date" \notin DOMAIN session_state
    /\ "_global_df_css_injected" \in DOMAIN pre
    /\ "_cfg_filters_css_injected" \in DOMAIN pre
    /\ "pec" \in Allowlist /\ "pec" \in DOMAIN session_state

\* A call with the recorded page key on a session that holds filter keys
C2_SamePageWitness ==
    /\ op.name = "setup_page"
    /\ ~PageChanged
    /\ {"date", "pec"} \subseteq DOMAIN pre

-----------------------------------------------------------------------------
(* Loading a page's table (common/config.py).  A data file is a            *)
(* modification time and one sheet: the header names as written and the    *)
(* rows of cells.  Date columns of the sheets hold timestamps or nothing.   *)

\* str.lower() and str.strip() on the header names and cell texts in use
lower(s) ==
    CASE s = "Date" -> "date"
      [] s = "PEC" -> "pec"
      [] s = "ClusterCode" -> "clustercode"
      [] s = "Sex" -> "sex"
      [] s = "ScreenDate" -> "screendate"
      [] s = "SchoolType" -> "schooltype"
      [] s = "SchoolCode" -> "schoolcode"
      [] s \in {"Yes", "YES"} -> "yes"
      [] s = "Y" -> "y"
      [] s \in {"True", "TRUE"} -> "true"
      [] s = "False" -> "false"
      [] s = "None" -> "none"
      [] s = "No" -> "no"
      [] s = "Done" -> "done"
      [] s = "Male" -> "male"
      [] s = "Female" -> "female"
      [] s = "M" -> "m"
      [] s = "F" -> "f"
      [] s = "Unknown" -> "unknown"
      [] s = ".XLSX" -> ".xlsx"
      [] OTHER -> s

strip(s) ==
    CASE s = " PEC" -> "PEC"
      [] s = "a " -> "a"
      [] s = "c " -> "c"
      [] s = " yes " -> "yes"
      [] s = " Male" -> "Male"
      [] s = " " -> ""
      [] OTHER -> s

\* s.astype(str).str.strip() of one cell of an object column
astype_str_strip(c) ==
    CASE c.t = "str" -> Str(strip(c.v))
      [] c.t = "nan" -> Str("nan")
      [] c.t = "num" -> Str(ToString(c.n))
      [] c.t = "ts" -> Str(isoformat(Date(c.day)) \o " 00:00:00")

\* The table load_excel builds from a file: header names lower-cased and
\* trimmed, the cells of text columns turned into trimmed text
ReadSheet(file) ==
    LET raw == file.sheet
        names == [j \in DOMAIN raw.columns |-> lower(strip(raw.columns[j]))]
        object(j) == \E i \in DOMAIN raw.rows : raw.rows[i][j].t = "str"
        cell(i, j) == IF object(j) THEN astype_str_strip(raw.rows[i][j])
                      ELSE raw.rows[i][j]
    IN  [columns |-> Range(names),
         rows |-> [i \in DOMAIN raw.rows |->
                     [c \in Range(names) \cup {"idx"} |->
                        IF c = "idx" THEN i - 1
                        ELSE cell(i, CHOOSE j \in DOMAIN names : names[j] = c)]]]

\* The key st.cache_data memoizes a call of load_excel under: the hashed
\* arguments.  An argument whose name starts with an underscore (_v) is
\* not hashed.
CacheKey(path, sheet, _v) == <<path, sheet>>

_file_mtime(files, path) == IF path \in DOMAIN files THEN files[path].mtime ELSE 0

\* A file pd.read_excel cannot read, with either engine: it has no sheet
Unreadable(file) == file.sheet = None

\* load_excel(path, sheet=, _v=) against the files and the memo: the table,
\* the memo afterwards, whether it raised, whether the file was read
load_excel(files, memo, path, sheet, _v) ==
    LET key == CacheKey(path, sheet, _v)
    IN  IF key \in DOMAIN memo
        THEN [df |-> memo[key].df, cache |-> memo, raised |-> FALSE, read |-> FALSE]
        ELSE IF path \notin DOMAIN files \/ Unreadable(files[path])
        THEN [df |-> [columns |-> {}, rows |-> <<>>], cache |-> memo,
              raised |-> TRUE, read |-> FALSE]
        ELSE LET t == ReadSheet(files[path])
             IN  [df |-> t, cache |-> Put(memo, key, [df |-> t, v |-> _v]),
                  raised |-> FALSE, read |-> TRUE]

\* A resolver that keeps looking after the first match
RECURSIVE PickLast(_, _)
PickLast(candidates, columns) ==
    IF candidates = <<>> THEN None
    ELSE IF PickLast(Tail(candidates), columns) # None
    THEN PickLast(Tail(candidates), columns)
    ELSE IF Head(candidates) \in columns THEN Str(Head(candidates))
    ELSE None

RECURSIVE pick_column(_, _)
pick_column(candidates, columns) ==
    IF candidates = <<>> THEN None
    ELSE IF Head(candidates) \in columns THEN Str(Head(candidates))
    ELSE pick_column(Tail(candidates), columns)

resolved_cols(columns, candidates) ==
    [key \in DOMAIN candidates |-> pick_column(candidates[key], columns)]

load_df_or_stop(files, memo, data_path, sheet, candidates, date_key) ==
    LET l == load_excel(files, memo, data_path, sheet, _file_mtime(files, data_path))
        RES == resolved_cols(l.df.columns, candidates)
        date_col == Get(RES, date_key)
        rows == IF _col_present(l.df.columns, date_col)
                THEN [i \in DOMAIN l.df.rows |->
                        [l.df.rows[i] EXCEPT ![date_col.v] = ToDatetimeCell(@)]]
                ELSE l.df.rows
    IN  IF l.raised
        THEN [stopped |-> TRUE, df |-> <<>>, columns |-> {}, RES |-> EmptyMap,
              cache |-> l.cache, read |-> l.read]
        ELSE [stopped |-> FALSE, df |-> rows, columns |-> l.df.columns, RES |-> RES,
              cache |-> l.cache, read |-> l.read]

-----------------------------------------------------------------------------
(* SpecCache: loads, file writes and cache clears in any order.            *)

MaxMtime == 2

CachePaths == {"PECdata.xlsx", "CataractData.xlsx"}

\* What a write can leave in a file
Sheets ==
    {[columns |-> <<"Date", " PEC">>,
      rows |-> << <<Ts(1, 0, 0), Str("a ")>> >>],
     [columns |-> <<"Date", " PEC">>,
      rows |-> << <<Ts(1, 0, 0), Str("b")>>, <<NaN, NaN>> >>],
     [columns |-> <<"date", "pec">>,
      rows |-> << <<Ts(1, 0, 0), Num(1)>>, <<Ts(1, 0, 0), NaN>> >>]}

CacheCandidates == [date |-> <<"Date", "date">>, pec |-> <<"pec", "PEC">>]

InitCache ==
    /\ df = <<>>
    /\ col_mapping = EmptyMap
    /\ filter_order = <<>>
    /\ session_state = EmptyMap
    /\ f = <<>>
    /\ selected_filters = EmptyMap
    /\ offered = EmptyMap
    /\ steps = <<>>
    /\ raised = FALSE
    /\ pc = "cache"
    /\ pre = EmptyMap
    /\ op = [name |-> "init"]
    /\ page = "none"
    /\ disk = EmptyMap
    /\ cache = EmptyMap
    /\ UPLOAD_TOKEN = <<>>
    /\ result = None
    /\ uploads = <<>>

\* The file is written: new content, later modification time
WriteFile ==
    /\ \E path \in CachePaths, s \in Sheets :
         LET mtime == _file_mtime(disk, path) + 1
         IN  /\ mtime <= MaxMtime
             /\ disk' = Put(disk, path, [mtime |-> mtime, sheet |-> s])
    /\ op' = [name |-> "write"]
    /\ UNCHANGED <<uploads, UPLOAD_TOKEN, result, df, col_mapping, filter_order, session_state, f,
                   selected_filters, offered, steps, raised, pc, pre, page, cache>>

\* df, RES = load_df_or_stop(DATA_PATH, SHEET, candidates=CANDIDATES)
Load ==
    /\ \E path \in CachePaths :
         LET r == load_df_or_stop(disk, cache, path, 0, CacheCandidates, "date")
             key == CacheKey(path, 0, _file_mtime(disk, path))
         IN  /\ df' = r.df
             /\ col_mapping' = r.RES
             /\ raised' = r.stopped
             /\ cache' = r.cache
             /\ op' = [name |-> "load", path |-> path, read |-> r.read,
                       memo_v |-> IF key \in DOMAIN cache THEN cache[key].v ELSE 0]
    /\ UNCHANGED <<uploads, UPLOAD_TOKEN, result, filter_order, session_state, f, selected_filters, offered,
                   steps, pc, pre, page, disk>>

\* st.cache_data.clear()
ClearCache ==
    /\ cache # EmptyMap
    /\ cache' = EmptyMap
    /\ op' = [name |-> "clear_cache"]
    /\ UNCHANGED <<uploads, UPLOAD_TOKEN, result, df, col_mapping, filter_order, session_state, f,
                   selected_filters, offered, steps, raised, pc, pre, page, disk>>

NextCache == WriteFile \/ Load \/ ClearCache

SpecCache == InitCache /\ [][NextCache]_vars

\* The table a load of the file as it is now on disk gives
ReadNow(path) == load_df_or_stop(disk, EmptyMap, path, 0, CacheCandidates, "date").df

\* C1: a load made after the file's modification time changed returns the
\* table read from the changed file, never the table memoized for the
\* earlier modification time; a load with unchanged path and modification
\* time returns the memoized table without reading the file again.
C1_LoadFollowsFile ==
    (op.name = "load" /\ ~raised) =>
        /\ df = ReadNow(op.path)
        /\ (op.memo_v = _file_mtime(disk, op.path) => ~op.read)

\* The second half alone: the memo made at the file's present modification
\* time is returned, it is the file's table, and the file is not read
C1_MemoizedWhileUnchanged ==
    (op.name = "load" /\ ~raised /\ op.memo_v = _file_mtime(disk, op.path)) =>
        ~op.read /\ df = ReadNow(op.path)

\* A load answered from a memo made at an earlier modification time
C1_StaleLoad ==
    /\ op.name = "load" /\ ~raised
    /\ op.memo_v # 0 /\ op.memo_v < _file_mtime(disk, op.path)
    /\ df # ReadNow(op.path)

-----------------------------------------------------------------------------
(* Spec: one user session over the home page (Dashboard.py) and the three  *)
(* dashboard pages (pages/*.py).  Every action is one user event and the   *)
(* script run, or runs, it causes.  The data files stay as they are.       *)

Dashboards == {"cataract", "pec", "school"}

Pages == {"home"} \cup Dashboards

PageKey(p) ==
    CASE p = "cataract" -> "cataract_management"
      [] p = "pec" -> "primary_eye_care"
      [] p = "school" -> "school_program"

PageTitle(p) ==
    CASE p = "cataract" -> "Cataract Management"
      [] p = "pec" -> "Primary Eye Care"
      [] p = "school" -> "School Program"

DataFile(p) ==
    CASE p = "cataract" -> "CataractData.xlsx"
      [] p = "pec" -> "PECdata.xlsx"
      [] p = "school" -> "School_Program.xlsx"

\* The entries of a page's CANDIDATES its sidebar filters use
CANDIDATES(p) ==
    CASE p = "cataract" ->
           [date |-> <<"Date", "date">>, pec |-> <<"pec", "PEC">>,
            cluster |-> <<"ClusterCode", "clustercode", "cluster">>,
            sex |-> <<"sex">>]
      [] p = "pec" ->
           [date |-> <<"date">>, pec |-> <<"pec">>, cluster |-> <<"clustercode">>,
            sex |-> <<"sex">>]
      [] p = "school" ->
           [date |-> <<"screendate", "date">>, school_type |-> <<"schooltype">>,
            school_name |-> <<"schoolcode", "school name", "school">>,
            sex |-> <<"sex">>]

\* The filter list a page hands to dynamic_sidebar_filters
filters(p) ==
    IF p = "school"
    THEN <<[col |-> "date", label |-> "Date", type |-> "date"],
           [col |-> "school_type", label |-> "School Type", type |-> "multiselect"],
           [col |-> "school_name", label |-> "School Name", type |-> "multiselect"],
           [col |-> "sex", label |-> "Sex", type |-> "multiselect"]>>
    ELSE <<[col |-> "date", label |-> "Date", type |-> "date"],
           [col |-> "pec", label |-> "Team", type |-> "multiselect"],
           [col |-> "cluster", label |-> "Vision Centre", type |-> "multiselect"],
           [col |-> "sex", label |-> "Sex", type |-> "multiselect"]>>

\* The data files of the session: two rows each, on the first and the last day
ProgramSheet ==
    [columns |-> <<"Date", "PEC", "ClusterCode", "Sex">>,
     rows |-> << <<Ts(1, 0, 0), Str("a"), Str("c "), Str("F")>>,
                 <<Ts(MaxDay, 0, 0), Str("b"), Str("c"), Str("M")>> >>]

SchoolSheet ==
    [columns |-> <<"ScreenDate", "SchoolType", "SchoolCode", "Sex">>,
     rows |-> << <<Ts(1, 0, 0), Str("a"), Str("b"), Str("F")>>,
                 <<Ts(MaxDay, 0, 0), Str("a"), Str("c"), Str("M")>> >>]

SessionDisk ==
    [path \in {DataFile(p) : p \in Dashboards} |->
       [mtime |-> 1,
        sheet |-> IF path = DataFile("school") THEN SchoolSheet ELSE ProgramSheet]]

\* The keys under which the pages' widgets keep their values
WidgetKeys ==
    UNION {{IF FilterType(fd) = "date" THEN FilterKey(fd) \o "_start" ELSE FilterKey(fd),
            IF FilterType(fd) = "date" THEN FilterKey(fd) \o "_end" ELSE FilterKey(fd)} :
           fd \in UNION {Range(filters(p)) : p \in Dashboards}}

\* The widgets a run of dynamic_sidebar_filters showed
Rendered(r) ==
    UNION {IF r.steps[i].type = "date"
           THEN IF r.steps[i].key \in DOMAIN r.selections
                THEN {r.steps[i].key \o "_start", r.steps[i].key \o "_end"}
                ELSE {}
           ELSE IF r.steps[i].raised THEN {} ELSE {r.steps[i].key} :
           i \in DOMAIN r.steps}

\* At the end of a run that completed or asked for a rerun, Streamlit drops
\* the value of every widget the run did not show; values the run wrote
\* through st.session_state stay
RemoveStale(ss, active) == Restrict(ss, DOMAIN ss \ (WidgetKeys \ active))

\* render_page_header(..., active_filters=selected): the chips' style flag
render_page_header(ss, active_filters) ==
    IF \E k \in DOMAIN active_filters : active_filters[k] # ""
    THEN _ensure_chip_css_once(ss)
    ELSE ss

\* The rest of a dashboard page's script, from the load ld and the filters'
\* result r on: how the run ends and what it leaves in the session
AfterFilters(p, ss2, ld, r) ==
    LET out == [ss |-> r.ss, df |-> ld.df, RES |-> ld.RES, order |-> filters(p),
                f |-> r.subset, selections |-> r.selections, offered |-> r.offered,
                steps |-> r.steps, raised |-> r.raised, valid |-> r.valid,
                rerun |-> r.rerun, cache |-> ld.cache, end |-> "done"]
    IN  IF ld.stopped
        THEN [out EXCEPT !.ss = ss2, !.f = <<>>, !.selections = EmptyMap,
                         !.offered = EmptyMap, !.steps = <<>>, !.raised = FALSE,
                         !.valid = TRUE, !.rerun = FALSE, !.end = "stopped"]
        ELSE IF r.rerun
        THEN [out EXCEPT !.ss = RemoveStale(r.ss, {FilterKey(fd) : fd \in Range(filters(p))}),
                         !.end = "rerun"]
        ELSE IF r.raised THEN [out EXCEPT !.end = "raised"]
        ELSE IF p = "cataract" /\ r.subset = <<>> THEN [out EXCEPT !.end = "stopped"]
        ELSE [out EXCEPT !.ss = RemoveStale(render_page_header(r.ss, r.selections),
                                            Rendered(r))]

\* One run of page p's script on session state ss, with the Clear button
\* pressed or not
Script(p, ss, files, memo, clear) ==
    IF p = "home"
    THEN [ss |-> RemoveStale(inject_global_dataframe_css(ss), {}),
          df |-> <<>>, RES |-> EmptyMap, order |-> <<>>, f |-> <<>>,
          selections |-> EmptyMap, offered |-> EmptyMap, steps |-> <<>>,
          raised |-> FALSE, valid |-> TRUE, rerun |-> FALSE, cache |-> memo,
          end |-> "done"]
    ELSE
    LET ss1 == setup_page(ss, PageTitle(p), Str(PageKey(p)), None)
        ss2 == inject_global_dataframe_css(ss1)
    IN  CHOOSE out \in
            UNION {{AfterFilters(p, ss2, ld, r) :
                    r \in {dynamic_sidebar_filters(ld.df, ld.columns, ld.RES,
                                                   filters(p), ss2, clear)}} :
                   ld \in {load_df_or_stop(files, memo, DataFile(p), 0,
                                           CANDIDATES(p), "date")}} : TRUE

\* The runs one user event causes: a run that asks for a rerun is followed
\* by a run without the button
Runs(p, ss, files, memo, clear) ==
    CHOOSE out \in
        {IF first.rerun THEN Script(p, first.ss, files, first.cache, FALSE) ELSE first :
         first \in {Script(p, ss, files, memo, clear)}} : TRUE

Init ==
    /\ df = <<>>
    /\ col_mapping = EmptyMap
    /\ filter_order = <<>>
    /\ session_state = EmptyMap
    /\ f = <<>>
    /\ selected_filters = EmptyMap
    /\ offered = EmptyMap
    /\ steps = <<>>
    /\ raised = FALSE
    /\ pc = "start"
    /\ pre = EmptyMap
    /\ op = [name |-> "init"]
    /\ page = "none"
    /\ disk = SessionDisk
    /\ cache = EmptyMap
    /\ UPLOAD_TOKEN = <<>>
    /\ result = None
    /\ uploads = <<>>

\* The state a user event leaves
Shown(p, r, event) ==
    /\ r.valid
    /\ page' = p
    /\ df' = r.df
    /\ col_mapping' = r.RES
    /\ filter_order' = r.order
    /\ session_state' = r.ss
    /\ f' = r.f
    /\ selected_filters' = r.selections
    /\ offered' = r.offered
    /\ steps' = r.steps
    /\ raised' = r.raised
    /\ pc' = r.end
    /\ cache' = r.cache
    /\ pre' = session_state
    /\ op' = event
    /\ UNCHANGED <<disk, uploads, UPLOAD_TOKEN, result>>

\* The user opens a page
OpenPage ==
    \E p \in Pages :
        \E r \in {Runs(p, session_state, disk, cache, FALSE)} :
            Shown(p, r, [name |-> "open", from |-> page])

\* The user changes one date input of the page on screen
EditDate ==
    /\ page \in Dashboards
    /\ \E k \in {"date_start", "date_end"}, d \in Days :
         /\ k \in DOMAIN session_state
         /\ session_state[k] # Date(d)
         /\ \E r \in {Runs(page, Put(session_state, k, Date(d)), disk, cache, FALSE)} :
                Shown(page, r, [name |-> "edit", key |-> k])

\* The user changes the selection of one multiselect of the page on screen
EditSelection ==
    /\ page \in Dashboards
    /\ \E k \in DOMAIN offered :
         \E q \in Perms({offered[k][i][1] : i \in DOMAIN offered[k]}) :
            /\ session_state[k] # List(q)
            /\ \E r \in {Runs(page, Put(session_state, k, List(q)), disk, cache, FALSE)} :
                   Shown(page, r, [name |-> "edit", key |-> k])

\* The user presses Clear
Clear ==
    /\ page \in Dashboards
    /\ pc \in {"done", "stopped"}
    /\ \E r \in {Runs(page, session_state, disk, cache, TRUE)} :
         Shown(page, r, [name |-> "clear"])

\* The user presses Refresh: the callback clears the memo, the script runs
Refresh ==
    /\ page \in Dashboards
    /\ pc \in {"done", "stopped"}
    /\ \E r \in {Runs(page, session_state, disk, EmptyMap, FALSE)} :
         Shown(page, r, [name |-> "refresh"])

Next == OpenPage \/ EditDate \/ EditSelection \/ Clear \/ Refresh

Spec == Init /\ [][Next]_vars

-----------------------------------------------------------------------------
(* Claims about the session (Spec).                                        *)

\* The session keys that hold filter selections: the filters' own keys and
\* their widgets' keys
FilterStateKeys ==
    WidgetKeys \cup {FilterKey(fd) : fd \in UNION {Range(filters(p)) : p \in Dashboards}}

\* What page p shows to a session that has made no selection
FreshRun(p) == Runs(p, EmptyMap, disk, cache, FALSE)

\* The page on screen shows what it shows to a session without selections
ShowsNoEarlierSelection ==
    \E fresh \in {FreshRun(page)} :
        /\ f = fresh.f
        /\ selected_filters = fresh.selections
        /\ \A k \in FilterStateKeys : Get(session_state, k) = Get(fresh.ss, k)

\* C3: whenever the active page changes, the filter selection state is
\* reset: a dashboard page that starts rendering after a different page
\* (the home page or another dashboard) was rendered sees no filter
\* selection made during an earlier visit.
C3_PageChangeResets ==
    (op.name = "open" /\ op.from # page /\ page \in Dashboards) =>
        ShowsNoEarlierSelection

\* The same for a dashboard opened straight from another dashboard
C3_DashboardToDashboard ==
    (op.name = "open" /\ op.from # page /\ page \in Dashboards
     /\ op.from \in Dashboards) =>
        ShowsNoEarlierSelection

\* A dashboard opened from the home page that applies a date range chosen
\* during an earlier visit
C3_StaleRangeAfterHome ==
    /\ op.name = "open" /\ op.from = "home" /\ page \in Dashboards
    /\ "date" \in DOMAIN pre
    /\ Len(f) < Len(df)

\* The days the table on screen has in its date column
TableDays ==
    {df[i][col_mapping["date"].v].day :
       i \in {j \in DOMAIN df : df[j][col_mapping["date"].v].t = "ts"}}

\* The full date range of the table on screen
FullRange ==
    Pair(Date(CHOOSE d \in TableDays : \A e \in TableDays : d <= e),
         Date(CHOOSE d \in TableDays : \A e \in TableDays : e <= d))

\* C4: after Clear, whatever was selected before, the next render applies
\* every filter at its default: the date inputs feed the table's full
\* (min, max) range into the date filter, every multiselect has an empty
\* selection, and so no dated row is filtered out.
C4_ClearRestoresDefaults ==
    op.name = "clear" =>
        /\ \A i \in DOMAIN filter_order :
             LET key == FilterKey(filter_order[i])
             IN  IF FilterType(filter_order[i]) = "date"
                 THEN /\ session_state[key \o "_start"] = FullRange.a
                      /\ session_state[key \o "_end"] = FullRange.b
                      /\ session_state[key] = FullRange
                      /\ selected_filters[key] =
                           isoformat(FullRange.a) \o " -> " \o isoformat(FullRange.b)
                 ELSE /\ session_state[key] = List(<<>>)
                      /\ selected_filters[key] = ""
        /\ f = SelectSeq(df, LAMBDA r : r[col_mapping["date"].v].t = "ts")

\* A Clear pressed while a narrowed date range and a category selection
\* were active
C4_Witness ==
    /\ op.name = "clear"
    /\ "date_start" \in DOMAIN pre /\ pre["date_start"] # FullRange.a
    /\ pre["date"] # FullRange
    /\ \E k \in DOMAIN offered : k \in DOMAIN pre /\ pre[k] # List(<<>>)
    /\ Len(f) = Len(df) /\ df # <<>>

-----------------------------------------------------------------------------
(* Aggregation helpers (common/helper.py).  A table is its column names    *)
(* and its rows; a Series of counts is the sequence of its (index, count)  *)
(* pairs.                                                                  *)

\* A Python set of texts
Set(items) == [t |-> "set", items |-> items]

\* safe_series(df, col): the column's cells, or an empty Series
safe_series(table, col) ==
    IF col = None \/ ~_col_present(table.columns, col) THEN <<>>
    ELSE [i \in DOMAIN table.rows |-> table.rows[i][col.v]]

\* s.astype("string") of one cell: its text, or NA
astype_string(c) == IF c.t \in {"nan", "nat", "none"} THEN NaN ELSE Str(str(c))

\* Counts taken over the whole population instead of the present subset
CountsOfAll(df_all, df_present, col, drop_values, exclude_values) ==
    LET s == SelectSeq([i \in DOMAIN safe_series(df_all, col) |->
                          astype_string(safe_series(df_all, col)[i])],
                       LAMBDA c : c.t # "nan")
        order == SortedSeq(Range(s))
    IN  [k \in DOMAIN order |->
           <<order[k].v, Cardinality({i \in DOMAIN s : s[i] = order[k]})>>]

category_counts_present(df_all, df_present, col, drop_values, exclude_values) ==
    LET strings(series) == [i \in DOMAIN series |-> astype_string(series[i])]
        masked(s) ==
            IF Truthy(drop_values)
            THEN [i \in DOMAIN s |->
                    IF s[i].t = "str" /\ s[i].v \in drop_values.items THEN NaN ELSE s[i]]
            ELSE s
        dropna(s) == SelectSeq(s, LAMBDA c : c.t # "nan")
        excluded(s) ==
            IF Truthy(exclude_values)
            THEN SelectSeq(s, LAMBDA c : c.v \notin exclude_values.items)
            ELSE s
        s_all == excluded(dropna(masked(strings(safe_series(df_all, col)))))
        s_pre == excluded(dropna(masked(strings(safe_series(df_present, col)))))
        all_order == SortedSeq(Range(s_all))
    IN  IF col = None THEN <<>>
        ELSE IF safe_series(df_all, col) = <<>> \/ safe_series(df_present, col) = <<>>
        THEN <<>>
        ELSE IF s_all = <<>> THEN <<>>
        ELSE [k \in DOMAIN all_order |->
                <<all_order[k].v,
                  Cardinality({i \in DOMAIN s_pre : s_pre[i] = all_order[k]})>>]

\* (count / total * 100).round(1), in tenths of a percent.  The quotient is
\* rounded to the nearest tenth, a tie to the even one; a tie needs a total
\* that is a multiple of 16.
Percentage(count, total) ==
    LET q == (count * 1000) \div total
        r == (count * 1000) % total
    IN  IF 2 * r < total THEN q
        ELSE IF 2 * r > total THEN q + 1
        ELSE IF q % 2 = 0 THEN q ELSE q + 1

\* A Series of counts given to make_count_df: its (index, count) pairs
Series(items) == [t |-> "series", items |-> items]

\* The empty table with the schema of make_count_df
EmptyCountDf == [columns |-> <<"Category", "Count", "Percentage">>, rows |-> <<>>]

\* make_count_df without the test of the total: 0 / 0 is NaN in pandas
CountDfUnguarded(counts) ==
    IF counts = None THEN EmptyCountDf
    ELSE IF Len(counts.items) = 0 THEN EmptyCountDf
    ELSE LET vals == [k \in DOMAIN counts.items |-> counts.items[k][2]]
             total == SeqSum(vals)
         IN  [columns |-> <<"Category", "Count", "Percentage">>,
              rows |-> [k \in DOMAIN vals |->
                          [Category |-> counts.items[k][1], Count |-> vals[k],
                           Percentage |-> IF total = 0 THEN NaN
                                          ELSE Num(Percentage(vals[k], total))]]]

make_count_df(counts) ==
    IF counts = None THEN EmptyCountDf
    ELSE IF Len(counts.items) = 0 THEN EmptyCountDf
    ELSE LET vals == [k \in DOMAIN counts.items |-> counts.items[k][2]]
             total == SeqSum(vals)
         IN  IF total = 0 THEN EmptyCountDf
             ELSE [columns |-> <<"Category", "Count", "Percentage">>,
                   rows |-> [k \in DOMAIN vals |->
                               [Category |-> counts.items[k][1], Count |-> vals[k],
                                Percentage |-> Num(Percentage(vals[k], total))]]]

-----------------------------------------------------------------------------
(* The pages' own helpers (pages/Cataract_Dashboard.py,                    *)
(* pages/PEC_Dashboard.py).                                                *)

PyFalse == [t |-> "bool", v |-> FALSE]

\* is_done without its first line: NaN is a float, and bool(nan) is True
IsDoneOfPresent(val) ==
    IF val.t \in {"bool", "num", "nan"} THEN Truthy(val)
    ELSE IF val.t = "none" THEN FALSE
    ELSE lower(strip(str(val))) \in {"yes", "y", "true", "1"}

\* Cataract_Dashboard.is_done(val)
is_done(val) ==
    IF val.t \in {"none", "nan", "nat"} THEN FALSE
    ELSE IF val.t \in {"bool", "num"} THEN Truthy(val)
    ELSE lower(strip(str(val))) \in {"yes", "y", "true", "1"}

\* PEC_Dashboard.YES
YES ==
    {"y", "yes", "true", "t", "1", "present", "referred", "done", "given",
     "issued", "booked"}

\* s.astype(str) of one cell
astype_str(c) ==
    CASE c.t = "str" -> c.v
      [] c.t = "nan" -> "nan"
      [] c.t = "none" -> "None"
      [] c.t = "bool" -> IF c.v THEN "True" ELSE "False"
      [] c.t = "num" -> ToString(c.n)

\* PEC_Dashboard.yes_like(s): the boolean Series, cell by cell
yes_like(s) ==
    IF s = None THEN <<>>
    ELSE [i \in DOMAIN s.items |-> lower(strip(astype_str(s.items[i]))) \in YES]

\* PEC_Dashboard.normalize_sex(s), cell by cell: Male, Female or missing
normalize_sex(s) ==
    [i \in DOMAIN s |->
       IF s[i].t \in {"nan", "none"} THEN NaN
       ELSE LET z == lower(strip(str(s[i])))
            IN  IF z \in {"m", "male", "man", "boy"} THEN Str("Male")
                ELSE IF z \in {"f", "female", "woman", "girl"} THEN Str("Female")
                ELSE NaN]

\* PEC_Dashboard.mf_table(df_in, by, label, order, mask); sex_col is the
\* page's global RES.get("sex").  A row of the result maps the column names
\* to the row's cells.
PEC_mf_table(df_in, sex_col, by, label, order, mask) ==
    LET cols == <<label, "Male", "Female", "Total">>
        empty == [columns |-> cols, rows |-> <<>>]
    IN  IF \/ df_in.rows = <<>>
           \/ ~Truthy(by)
           \/ ~_col_present(df_in.columns, by)
           \/ ~_col_present(df_in.columns, sex_col)
        THEN empty
        ELSE LET d == IF mask # None THEN BoolIndex(df_in.rows, mask.items)
                      ELSE df_in.rows
             IN  IF d = <<>> THEN empty
                 ELSE LET _sex == normalize_sex([i \in DOMAIN d |-> d[i][sex_col.v]])
                          row_order ==
                              IF Truthy(order) THEN order.items
                              ELSE SortedSeq({d[i][by.v] : i \in DOMAIN d} \ {NaN})
                          n(cat, sx) ==
                              Cardinality({i \in DOMAIN d :
                                             d[i][by.v] = cat /\ _sex[i] = Str(sx)})
                      IN  [columns |-> cols,
                           rows |-> [k \in DOMAIN row_order |->
                                       (label :> row_order[k])
                                       @@ ("Male" :> Num(n(row_order[k], "Male")))
                                       @@ ("Female" :> Num(n(row_order[k], "Female")))
                                       @@ ("Total" :> Num(n(row_order[k], "Male")
                                                          + n(row_order[k], "Female")))]]

\* The text "n (p%)" a cell of the Cataract page's table is turned into, by
\* the count n and the percentage p in tenths
CountWithPercent(n, p) == [t |-> "text", count |-> n, pct |-> p]

\* df_tmp[c].fillna("Unknown").astype(str).str.strip() of one cell
UnknownIfMissing(c) ==
    IF c.t \in {"nan", "none"} THEN Str("Unknown") ELSE Str(strip(astype_str(c)))

\* Cataract_Dashboard.mf_table(col_name) on the filtered table f with the
\* page's RES: pd.crosstab gives a column to each sex that occurs among the
\* done rows
Cataract_mf_table(table, RES, col_name) ==
    LET cluster == Get(RES, "cluster")
        sex == Get(RES, "sex")
    IN  IF \/ col_name \notin table.columns
           \/ ~Truthy(cluster) \/ ~Truthy(sex)
           \/ cluster.v \notin table.columns \/ sex.v \notin table.columns
        THEN [columns |-> <<>>, rows |-> <<>>]
        ELSE LET df_done == SelectSeq(table.rows, LAMBDA r : is_done(r[col_name]))
                 sexes == SortedSeq({UnknownIfMissing(df_done[i][sex.v]) :
                                       i \in DOMAIN df_done})
                 centres == SortedSeq({UnknownIfMissing(df_done[i][cluster.v]) :
                                         i \in DOMAIN df_done})
                 n(c, s) == Cardinality({i \in DOMAIN df_done :
                                           /\ UnknownIfMissing(df_done[i][cluster.v]) = c
                                           /\ UnknownIfMissing(df_done[i][sex.v]) = s})
                 total(c) == SeqSum([j \in DOMAIN sexes |-> n(c, sexes[j])])
             IN  IF df_done = <<>> THEN [columns |-> <<>>, rows |-> <<>>]
                 ELSE [columns |-> <<"Vision Centre">>
                                   \o [j \in DOMAIN sexes |-> sexes[j].v] \o <<"Total">>,
                       rows |-> [k \in DOMAIN centres |->
                                   [x \in {"Vision Centre", "Total"}
                                          \cup {sexes[j].v : j \in DOMAIN sexes} |->
                                      IF x = "Vision Centre" THEN centres[k]
                                      ELSE IF x = "Total" THEN Num(total(centres[k]))
                                      ELSE CountWithPercent(
                                             n(centres[k], Str(x)),
                                             Percentage(n(centres[k], Str(x)),
                                                        total(centres[k])))]]]

\* Cataract_Dashboard.count_done(col) on the filtered table f
count_done(table, col) ==
    IF col \in table.columns
    THEN Cardinality({i \in DOMAIN table.rows : is_done(table.rows[i][col])})
    ELSE 0

\* f[col_name] of a column the table does not have
KeyError == [t |-> "KeyError"]

\* One turn of the Cataract page's key-metric loop: the metric of col_name,
\* as a share of base_col when there is one, and the card's text
\* "M:m | F:f", by the two counts
key_metric(table, sex_col, col_name, base_col) ==
    LET val == count_done(table, col_name)
        with_sex == Truthy(sex_col) /\ sex_col.v \in table.columns
        done_data == SelectSeq(table.rows, LAMBDA r : is_done(r[col_name]))
        among(words) ==
            Cardinality({i \in DOMAIN done_data :
                           /\ done_data[i][sex_col.v].t = "str"
                           /\ lower(done_data[i][sex_col.v].v) \in words})
        base_val == count_done(table, base_col.v)
    IN  IF with_sex /\ col_name \notin table.columns THEN KeyError
        ELSE [t |-> "card",
              val |-> IF Truthy(base_col)
                      THEN CountWithPercent(val, IF base_val # 0
                                                 THEN Percentage(val, base_val)
                                                 ELSE 0)
                      ELSE Num(val),
              gender_text |->
                  IF with_sex
                  THEN [t |-> "text", M |-> among({"male", "m", "man", "boy"}),
                        F |-> among({"female", "f", "woman", "girl"})]
                  ELSE Str("")]

-----------------------------------------------------------------------------
(* The batch client (myupload.py).  A file is its path and its size in     *)
(* bytes, or no size when it is not there any more; max_batch_mb is given  *)
(* in half bytes, so that int() has something to cut off.                  *)

\* int(max_batch_mb * 1024 * 1024), of a limit that is not negative
max_bytes(max_batch_mb) == max_batch_mb \div 2

\* Every file fits
FitsAlways(current_size, sz, limit) == TRUE

\* current_size + sz <= max_bytes
Fits(current_size, sz, limit) == current_size + sz <= limit

\* The current batch is appended even when it is empty
FlushAlways(batches, current) == Append(batches, current)

\* if current: batches.append(current)
Flush(batches, current) ==
    IF current # <<>> THEN Append(batches, current) ELSE batches

\* The loop of pack_batches_by_size from the i-th file on
RECURSIVE PackFrom(_, _, _, _, _, _)
PackFrom(files, limit, i, batches, current, current_size) ==
    IF i > Len(files) THEN Flush(batches, current)
    ELSE IF ~files[i].exists
    THEN PackFrom(files, limit, i + 1, batches, current, current_size)
    ELSE IF files[i].st_size > limit
    THEN PackFrom(files, limit, i + 1,
                  Append(Flush(batches, current), <<files[i]>>), <<>>, 0)
    ELSE IF Fits(current_size, files[i].st_size, limit)
    THEN PackFrom(files, limit, i + 1, batches, Append(current, files[i]),
                  current_size + files[i].st_size)
    ELSE PackFrom(files, limit, i + 1, Flush(batches, current), <<files[i]>>,
                  files[i].st_size)

pack_batches_by_size(files, max_batch_mb) ==
    PackFrom(files, max_bytes(max_batch_mb), 1, <<>>, <<>>, 0)

-----------------------------------------------------------------------------
(* SpecHelpers: the resolver, the aggregation helpers and the pages' own   *)
(* helpers, each a function of its arguments.  The initial states are the  *)
(* calls, with arguments drawn from bounded sets; an action makes the call *)
(* and leaves what it returned in result.                                  *)

\* resolved_cols(df, candidates): tables by their column names, candidate
\* lists in every order
ResolverColumns == SUBSET {"date", "clustercode", "cluster"}

ResolverCalls ==
    {[name |-> "resolved_cols", columns |-> cols,
      candidates |-> [cluster |-> c, date |-> d]] :
     cols \in ResolverColumns,
     c \in Perms({"ClusterCode", "clustercode", "cluster"}),
     d \in {<<>>, <<"Date", "date">>}}

\* Sequences of at most n elements of S
SeqsUpTo(S, n) == UNION {[1 .. k -> S] : k \in 0 .. n}

\* category_counts_present(df_all, df_present, col, drop_values,
\* exclude_values): a population with one category column, any of its
\* subsets, a column that is not given, given or not in the table
CategoryCells == {NaN, Str("a"), Str("b"), Str("nan"), Num(1)}

Populations ==
    {[columns |-> {"cat"}, rows |-> [i \in DOMAIN cells |-> [cat |-> cells[i]]]] :
     cells \in SeqsUpTo(CategoryCells, MaxRows)}

Subsets(table) ==
    {[columns |-> table.columns, rows |-> BoolIndex(table.rows, mask)] :
     mask \in [DOMAIN table.rows -> BOOLEAN]}

CountCalls(all) ==
    {[name |-> "category_counts_present", df_all |-> all,
      df_present |-> present, col |-> col, drop_values |-> drop,
      exclude_values |-> exclude] :
     present \in Subsets(all),
     col \in {None, Str("cat"), Str("referred")},
     drop \in {None, Set({"", "nan"})},
     exclude \in {None, Set({}), Set({"b"})}}

\* make_count_df(counts): a Series of at most MaxCats counts of at most
\* MaxCount each, its index in any order
MaxCats == 3
MaxCount == 3

CountSeries ==
    {None} \cup
    {Series(items) :
     items \in SeqsUpTo({<<c, n>> : c \in {"a", "b", "c"}, n \in 0 .. MaxCount}, MaxCats)}

CountDfCalls == {[name |-> "make_count_df", counts |-> counts] : counts \in CountSeries}

\* is_done(val): the cells of a yes/no column
DoneCells ==
    {None, NaN, PyTrue, PyFalse, Num(0), Num(1), Num(2),
     Str("Yes"), Str(" yes "), Str("y"), Str("Y"), Str("TRUE"), Str("1"),
     Str("no"), Str("No"), Str("0"), Str(""), Str("done"), Str("Done")}

IsDoneCalls == {[name |-> "is_done", val |-> val] : val \in DoneCells}

\* yes_like(s): a yes/no column of at most MaxRows cells, or None
YesLikeCalls ==
    {[name |-> "yes_like", s |-> s] :
     s \in {None} \cup {Series(items) : items \in SeqsUpTo(DoneCells, MaxRows)}}

\* A filtered table with a centre column, a sex column and one yes/no
\* column, of at most MaxRows rows
SexTables(yesno) ==
    {[columns |-> {"clustercode", "sex", yesno}, rows |-> rows] :
     rows \in SeqsUpTo({[c \in {"clustercode", "sex", yesno} |->
                           IF c = "clustercode" THEN centre
                           ELSE IF c = "sex" THEN sex ELSE done] :
                        centre \in {Str("a"), Str("b")},
                        sex \in {Str("Male"), Str("Female"), Str("M"), NaN},
                        done \in {Str("yes"), Str("no")}},
                       MaxRows)}

\* mf_table of the PEC page: by centre, with and without the page's order
\* of the centres and the mask of the referred rows
PECTableCalls(F) ==
    {[name |-> "PEC_mf_table", df_in |-> F, sex_col |-> sex_col,
      by |-> by, label |-> "Vision Centre", order |-> order, mask |-> mask] :
     sex_col \in {Str("sex"), None},
     by \in {Str("clustercode"), None},
     order \in {None, List(<<Str("a"), Str("b")>>)},
     mask \in {None,
               Series(yes_like(Series([i \in DOMAIN F.rows |->
                                         F.rows[i]["referred"]])))}}

\* mf_table of the Cataract page: of a column of the table and of one that
\* is not in it, with the sex column resolved or not
CataractTableCalls(table) ==
    {[name |-> "Cataract_mf_table", f |-> table, RES |-> RES, col_name |-> col_name] :
     RES \in {[cluster |-> Str("clustercode"), sex |-> Str("sex")],
              [cluster |-> Str("clustercode"), sex |-> None]},
     col_name \in {"cataractsx", "followdone"}}

\* The key metrics of the Cataract page: its three metrics on a filtered
\* table that has rows, with the sex column resolved or not
KeyMetricCalls(table) ==
    {[name |-> "key_metric", f |-> table, sex_col |-> sex_col,
      col_name |-> m[1], base_col |-> m[2]] :
     sex_col \in {Str("sex"), None},
     m \in {<<"cataractsx", None>>, <<"followdone", Str("cataractsx")>>,
            <<"bcvaf618", Str("followdone")>>}}

\* pack_batches_by_size(files, max_batch_mb): at most MaxPacked files of at
\* most MaxSize bytes, some of them gone, and a limit in half bytes
MaxPacked == 3
MaxSize == 5

PackedFiles ==
    {[i \in DOMAIN sizes |->
        [path |-> i, exists |-> sizes[i] >= 0, st_size |-> sizes[i]]] :
     sizes \in SeqsUpTo(-1 .. MaxSize, MaxPacked)}

PackCalls ==
    {[name |-> "pack_batches_by_size", files |-> files, max_batch_mb |-> mb] :
     files \in PackedFiles, mb \in 0 .. 2 * MaxSize - 1}

\* The calls: one of a helper, on arguments of its own
HelperCall ==
    \/ op \in ResolverCalls \cup CountDfCalls \cup IsDoneCalls \cup YesLikeCalls
    \/ op \in PackCalls
    \/ \E all \in Populations : op \in CountCalls(all)
    \/ \E F \in SexTables("referred") : op \in PECTableCalls(F)
    \/ \E table \in SexTables("cataractsx") :
         \/ op \in CataractTableCalls(table)
         \/ table.rows # <<>> /\ op \in KeyMetricCalls(table)

InitHelpers ==
    /\ df = <<>>
    /\ col_mapping = EmptyMap
    /\ filter_order = <<>>
    /\ session_state = EmptyMap
    /\ f = <<>>
    /\ selected_filters = EmptyMap
    /\ offered = EmptyMap
    /\ steps = <<>>
    /\ raised = FALSE
    /\ pc = "call"
    /\ pre = EmptyMap
    /\ HelperCall
    /\ page = "none"
    /\ disk = EmptyMap
    /\ cache = EmptyMap
    /\ UPLOAD_TOKEN = <<>>
    /\ result = None
    /\ uploads = <<>>

\* The call op returned r, or raised
Returns(r, exception) ==
    /\ pc = "call"
    /\ pc' = "done"
    /\ result' = r
    /\ raised' = exception
    /\ UNCHANGED <<df, col_mapping, filter_order, session_state, f, selected_filters,
                   offered, steps, pre, op, page, disk, cache, UPLOAD_TOKEN,
                   uploads>>

CallResolvedCols ==
    /\ op.name = "resolved_cols"
    /\ Returns(resolved_cols(op.columns, op.candidates), FALSE)

CallCategoryCounts ==
    /\ op.name = "category_counts_present"
    /\ Returns(category_counts_present(op.df_all, op.df_present, op.col,
                                       op.drop_values, op.exclude_values), FALSE)

CallMakeCountDf ==
    /\ op.name = "make_count_df"
    /\ Returns(make_count_df(op.counts), FALSE)

CallIsDone ==
    /\ op.name = "is_done"
    /\ Returns(is_done(op.val), FALSE)

CallYesLike ==
    /\ op.name = "yes_like"
    /\ Returns(yes_like(op.s), FALSE)

CallPECTable ==
    /\ op.name = "PEC_mf_table"
    /\ Returns(PEC_mf_table(op.df_in, op.sex_col, op.by, op.label, op.order,
                            op.mask), FALSE)

CallCataractTable ==
    /\ op.name = "Cataract_mf_table"
    /\ Returns(Cataract_mf_table(op.f, op.RES, op.col_name), FALSE)

CallKeyMetric ==
    /\ op.name = "key_metric"
    /\ \E r \in {key_metric(op.f, op.sex_col, op.col_name, op.base_col)} :
         Returns(IF r = KeyError THEN None ELSE r, r = KeyError)

CallPackBatches ==
    /\ op.name = "pack_batches_by_size"
    /\ Returns(pack_batches_by_size(op.files, op.max_batch_mb), FALSE)

NextHelpers ==
    \/ CallResolvedCols
    \/ CallCategoryCounts
    \/ CallMakeCountDf
    \/ CallIsDone
    \/ CallYesLike
    \/ CallPECTable
    \/ CallCataractTable
    \/ CallKeyMetric
    \/ CallPackBatches

SpecHelpers == InitHelpers /\ [][NextHelpers]_vars

\* The last call was of the helper called name, and it has returned
Called(name) == pc = "done" /\ op.name = name

\* The positions of the candidates of a logical field that are columns
Hits(key) == {i \in DOMAIN op.candidates[key] : op.candidates[key][i] \in op.columns}

\* C11: for every logical field the resolver returns the first candidate, in
\* the list's order, that is a column of the table, and None when no
\* candidate is; it answers for every field and does not raise.
C11_FirstExistingCandidate ==
    Called("resolved_cols") =>
        /\ ~raised
        /\ DOMAIN result = DOMAIN op.candidates
        /\ \A key \in DOMAIN op.candidates :
             IF Hits(key) = {} THEN result[key] = None
             ELSE \E i \in Hits(key) :
                    /\ \A j \in Hits(key) : i <= j
                    /\ result[key] = Str(op.candidates[key][i])

\* A field with two candidates in the table, the later one listed first, and
\* a field with none
C11_Witness ==
    /\ Called("resolved_cols")
    /\ op.candidates.cluster = <<"ClusterCode", "cluster", "clustercode">>
    /\ op.columns = {"clustercode", "cluster"}
    /\ result.cluster = Str("cluster")
    /\ result.date = None

\* C12: resolution matches candidates to columns without regard to letter
\* case: a candidate that differs from a (lower-case) column only in case,
\* such as "ClusterCode" against "clustercode", resolves to that column.
C12_CaseInsensitiveMatch ==
    Called("resolved_cols") =>
        \A key \in DOMAIN op.candidates :
            LET cands == op.candidates[key]
                like == {i \in DOMAIN cands : lower(cands[i]) \in op.columns}
            IN  like # {} =>
                  \E i \in like :
                     /\ \A j \in like : i <= j
                     /\ result[key] = Str(lower(cands[i]))

\* Where every candidate is written in lower case the match is exact
C12_LowerCaseCandidates ==
    (Called("resolved_cols")
     /\ \A key \in DOMAIN op.candidates : \A i \in DOMAIN op.candidates[key] :
          lower(op.candidates[key][i]) = op.candidates[key][i]) =>
        \A key \in DOMAIN op.candidates :
            (\E i \in DOMAIN op.candidates[key] : op.candidates[key][i] \in op.columns)
              <=> result[key] # None

\* The texts a call of category_counts_present leaves out
LeftOut ==
    (IF op.drop_values = None THEN {} ELSE op.drop_values.items)
    \cup (IF op.exclude_values = None THEN {} ELSE op.exclude_values.items)

\* The rows of a table that have a value in the call's column, and one the
\* call does not leave out
Counted(table) ==
    IF op.col = None \/ op.col.v \notin table.columns THEN {}
    ELSE {i \in DOMAIN table.rows :
            /\ table.rows[i][op.col.v] # NaN
            /\ str(table.rows[i][op.col.v]) \notin LeftOut}

\* C13: the counts category_counts_present returns sum to the number of rows
\* of the restricted subset whose value is not missing, not in drop_values
\* and not in exclude_values; for an empty table the sum is 0.
C13_CountsSumToKeptRows ==
    Called("category_counts_present") =>
        SeqSum([k \in DOMAIN result |-> result[k][2]])
          = Cardinality(Counted(op.df_present))

\* A subset of two rows, one of them of an excluded category: one is counted
C13_Witness ==
    /\ Called("category_counts_present")
    /\ op.exclude_values = Set({"b"})
    /\ Len(op.df_present.rows) = 2
    /\ \E i \in DOMAIN op.df_present.rows : op.df_present.rows[i].cat = Str("b")
    /\ Cardinality(Counted(op.df_present)) = 1
    /\ result = <<<<"a", 1>>>>

\* C14: the categories category_counts_present returns are the sorted
\* distinct counted values of the full population, whatever the restricted
\* subset holds; a category the subset lacks has count 0.
C14_StableCategoryUniverse ==
    Called("category_counts_present") =>
        /\ [k \in DOMAIN result |-> Str(result[k][1])]
             = SortedSeq({Str(str(op.df_all.rows[i][op.col.v])) : i \in Counted(op.df_all)})
        /\ \A k \in DOMAIN result :
             result[k][2] =
               Cardinality({i \in Counted(op.df_present) :
                              str(op.df_present.rows[i][op.col.v]) = result[k][1]})

\* The same for a restricted subset that has a row
C14_SubsetWithRows ==
    (Called("category_counts_present") /\ op.df_present.rows # <<>>) =>
        [k \in DOMAIN result |-> Str(result[k][1])]
          = SortedSeq({Str(str(op.df_all.rows[i][op.col.v])) : i \in Counted(op.df_all)})

\* C15: make_count_df returns one row per category in the order of the
\* counts given, each with its count and with the percentage nearest to
\* count / total * 100 at one decimal (within half a tenth); for no counts
\* or a total of 0 it returns the table with the three columns and no rows,
\* and it does not raise.
C15_CountAndPercentage ==
    Called("make_count_df") =>
        LET counts == IF op.counts = None THEN <<>> ELSE op.counts.items
            total == SeqSum([k \in DOMAIN counts |-> counts[k][2]])
            off(k) == result.rows[k].Percentage.n * total - counts[k][2] * 1000
        IN  /\ ~raised
            /\ result.columns = <<"Category", "Count", "Percentage">>
            /\ IF total = 0 THEN result.rows = <<>>
               ELSE /\ DOMAIN result.rows = DOMAIN counts
                    /\ \A k \in DOMAIN counts :
                         /\ result.rows[k].Category = counts[k][1]
                         /\ result.rows[k].Count = counts[k][2]
                         /\ result.rows[k].Percentage.t = "num"
                         /\ 2 * off(k) <= total /\ 2 * off(k) >= 0 - total

\* Counts 1, 0, 2 for c, a, b come back as 33.3, 0.0 and 66.7 percent, in
\* that order
C15_Witness ==
    /\ Called("make_count_df")
    /\ op.counts = Series(<<<<"c", 1>>, <<"a", 0>>, <<"b", 2>>>>)
    /\ [k \in 1 .. 3 |-> result.rows[k].Percentage.n] = <<333, 0, 667>>

\* Counts that are all 0 give the empty table
C15_ZeroTotal ==
    /\ Called("make_count_df")
    /\ op.counts = Series(<<<<"a", 0>>, <<"b", 0>>>>)
    /\ result = EmptyCountDf

\* C17: is_done is false for a missing value, the truthiness of a boolean
\* or a number, and for a text true exactly when the text, trimmed and in
\* lower case, is yes, y, true or 1: of the cells given it is true for
\* True, 1, 2, "Yes", " yes ", "y", "Y", "TRUE" and "1", false for the rest.
C17_DonePredicate ==
    Called("is_done") =>
        /\ ~raised
        /\ result = (op.val \in {PyTrue, Num(1), Num(2), Str("Yes"), Str(" yes "),
                                  Str("y"), Str("Y"), Str("TRUE"), Str("1")})
        /\ op.val \in {None, NaN} => result = FALSE
        /\ op.val.t = "bool" => result = op.val.v
        /\ op.val.t = "num" => result = (op.val.n # 0)
        /\ op.val.t = "str" =>
              result = (lower(strip(op.val.v)) \in {"yes", "y", "true", "1"})

\* is_done(NaN) has returned false
C17_Witness ==
    /\ Called("is_done")
    /\ op.val = NaN
    /\ result = FALSE

\* is_done(" yes ") has returned true
C17_TrimmedText ==
    /\ Called("is_done")
    /\ op.val = Str(" yes ")
    /\ result = TRUE

\* The cells of the column yes_like was called on
YesLikeCellsGiven == IF op.s = None THEN <<>> ELSE op.s.items

\* C18: for every cell value the PEC page's yes_like gives what the
\* Cataract page's is_done gives.
C18_SamePredicateOnEveryPage ==
    Called("yes_like") =>
        /\ DOMAIN result = DOMAIN YesLikeCellsGiven
        /\ \A i \in DOMAIN result : result[i] = is_done(YesLikeCellsGiven[i])

\* The two agree on missing values, booleans, 0, 1 and the texts that are
\* not among the PEC page's further words
C18_AgreeOnSharedWords ==
    Called("yes_like") =>
        \A i \in DOMAIN result :
            YesLikeCellsGiven[i] \notin {Num(2), Str("done"), Str("Done")}
                => result[i] = is_done(YesLikeCellsGiven[i])

\* yes_like has called the text done a yes and the number 2 a no
C18_Differ ==
    /\ Called("yes_like")
    /\ YesLikeCellsGiven = <<Str("done"), Num(2)>>
    /\ result = <<TRUE, FALSE>>

\* The rows a category-by-sex table was made of: the masked rows on the PEC
\* page, the done rows on the Cataract page
TabulatedRows ==
    IF op.name = "PEC_mf_table"
    THEN (IF op.mask = None THEN op.df_in.rows
          ELSE BoolIndex(op.df_in.rows, op.mask.items))
    ELSE SelectSeq(op.f.rows, LAMBDA r : is_done(r[op.col_name]))

\* The number in a cell of such a table
CellCount(c) == IF c.t = "num" THEN c.n ELSE c.count

\* The rows tabulated that have the centre and the sex, read as
\* normalize_sex reads it
PairRows(centre, sx) ==
    {i \in DOMAIN TabulatedRows :
       /\ TabulatedRows[i]["clustercode"] = centre
       /\ normalize_sex(<<TabulatedRows[i]["sex"]>>)[1] = Str(sx)}

\* C16: in every category-by-sex table of the pages each row has a Male and
\* a Female cell, 0 when no row tabulated has the pair, and its Total is the
\* sum of its sex counts.
C16_BothSexesInEveryRow ==
    (Called("PEC_mf_table") \/ Called("Cataract_mf_table")) =>
        \A k \in DOMAIN result.rows :
            LET row == result.rows[k]
                cols == result.columns
            IN  /\ {"Male", "Female", "Total"} \subseteq DOMAIN row
                /\ \A sx \in {"Male", "Female"} :
                     PairRows(row[cols[1]], sx) = {} => CellCount(row[sx]) = 0
                /\ CellCount(row["Total"])
                     = SeqSum([j \in 1 .. Len(cols) - 2 |-> CellCount(row[cols[j + 1]])])

\* The PEC page's table has them, with the counts of the rows whose sex
\* normalize_sex reads as Male and as Female
C16_PECTable ==
    Called("PEC_mf_table") =>
        \A k \in DOMAIN result.rows :
            LET row == result.rows[k]
                n(sx) == Cardinality(PairRows(row["Vision Centre"], sx))
            IN  /\ DOMAIN row = {"Vision Centre", "Male", "Female", "Total"}
                /\ row["Male"] = Num(n("Male")) /\ row["Female"] = Num(n("Female"))
                /\ row["Total"] = Num(n("Male") + n("Female"))

\* The PEC page's table of two centres, one of them with no row
C16_PECZeroRow ==
    /\ Called("PEC_mf_table")
    /\ Len(result.rows) = 2
    /\ result.rows[1]["Total"] = Num(2)
    /\ result.rows[2]["Total"] = Num(0)

\* The Cataract page's table of done rows that are all Male: no Female cell
C16_CataractOnlyMale ==
    /\ Called("Cataract_mf_table")
    /\ result.columns = <<"Vision Centre", "Male", "Total">>

\* C19: an aggregation step whose column is missing or not resolved, or
\* whose data is empty, returns an empty or zero result and does not raise:
\* category_counts_present and make_count_df return empty results and the
\* Cataract key metric of a column the filtered table lacks is 0.
C19_DegradesToEmptyOrZero ==
    /\ Called("category_counts_present") =>
         /\ ~raised
         /\ (\/ op.col = None \/ op.col.v \notin op.df_all.columns
             \/ op.df_all.rows = <<>> \/ op.df_present.rows = <<>>)
              => result = <<>>
    /\ Called("make_count_df") =>
         /\ ~raised
         /\ (op.counts = None \/ op.counts = Series(<<>>)) => result = EmptyCountDf
    /\ Called("key_metric") =>
         /\ ~raised
         /\ op.col_name \notin op.f.columns => CellCount(result.val) = 0

\* The two helpers do
C19_HelpersDegrade ==
    /\ Called("category_counts_present") =>
         /\ ~raised
         /\ (\/ op.col = None \/ op.col.v \notin op.df_all.columns
             \/ op.df_all.rows = <<>> \/ op.df_present.rows = <<>>)
              => result = <<>>
    /\ Called("make_count_df") =>
         /\ ~raised
         /\ (op.counts = None \/ op.counts = Series(<<>>)) => result = EmptyCountDf

\* The key metric does when the sex column is not resolved
C19_KeyMetricWithoutSex ==
    (Called("key_metric") /\ op.sex_col = None) =>
        /\ ~raised
        /\ op.col_name \notin op.f.columns => CellCount(result.val) = 0

\* The key metric of a column the table lacks has raised
C19_KeyMetricRaises ==
    /\ Called("key_metric")
    /\ op.col_name = "followdone" /\ op.sex_col = Str("sex")
    /\ raised

-----------------------------------------------------------------------------
(* SpecUpload: the upload service (upload.py).  A token is the sequence of *)
(* its characters; the upload directory is disk, here file name ->         *)
(* content; result is the response to the last request.                    *)

TokenLen == 32

\* n times the character c
Fill(c, n) == [i \in 1 .. n |-> c]

\* str.strip() of a sequence of characters
RECURSIVE StripToken(_)
StripToken(s) ==
    IF s = <<>> THEN s
    ELSE IF Head(s) = " " THEN StripToken(Tail(s))
    ELSE IF s[Len(s)] = " " THEN StripToken(SubSeq(s, 1, Len(s) - 1))
    ELSE s

\* The token test without the length: any token equal to the secret
TokenEqualsSecret(token) == token = UPLOAD_TOKEN

is_valid_token(token) == Len(token) = TokenLen /\ token = UPLOAD_TOKEN

ALLOWED_EXTENSIONS == {".xls", ".xlsx", ".xlsm", ".xlsb"}

\* Path(filename).suffix of the file names in use
Suffix(filename) ==
    CASE filename = "a.xlsx" -> ".xlsx"
      [] filename \in {"../B.XLSX", "B.XLSX"} -> ".XLSX"
      [] filename = "c.txt" -> ".txt"
      [] OTHER -> ""

\* Every extension allowed
AnyExtension(filename) == TRUE

allowed_ext(filename) == lower(Suffix(filename)) \in ALLOWED_EXTENSIONS

\* werkzeug's secure_filename of the file names in use
secure_filename(filename) ==
    CASE filename = "../B.XLSX" -> "B.XLSX"
      [] OTHER -> filename

\* The loop over the files of the request from the i-th on; failing holds
\* the positions whose save or replace raises
RECURSIVE SaveFrom(_, _, _, _)
SaveFrom(files, failing, i, acc) ==
    IF i > Len(files) THEN acc
    ELSE LET filename == files[i].filename
             skip(reason) ==
                 [acc EXCEPT !.skipped =
                    Append(@, [filename |-> filename, reason |-> reason])]
         IN  SaveFrom(files, failing, i + 1,
               IF filename = "" THEN skip("empty filename")
               ELSE IF ~allowed_ext(filename) THEN skip("extension not allowed")
               ELSE IF i \in failing THEN skip("save/replace failed")
               ELSE [acc EXCEPT
                       !.dir = Put(@, secure_filename(filename), files[i].content),
                       !.saved = Append(@, secure_filename(filename))])

\* abort(code), and jsonify(status=..., saved=..., skipped=...), code
Abort(code) == [status |-> code, body |-> "abort", saved |-> <<>>, skipped |-> <<>>]

Response(code, status, saved, skipped) ==
    [status |-> code, body |-> status, saved |-> saved, skipped |-> skipped]

\* upload_files(token) on a request whose form has the files given, or no
\* "files" part: the directory it leaves and the response
upload_files(dir, token, files, failing) ==
    IF ~is_valid_token(token)
    THEN [dir |-> dir, response |-> Abort(401)]
    ELSE IF files = None
    THEN [dir |-> dir, response |-> Abort(400)]
    ELSE IF files.items = <<>>
    THEN [dir |-> dir, response |-> Abort(400)]
    ELSE LET done == CHOOSE out \in {SaveFrom(files.items, failing, 1,
                                              [dir |-> dir, saved |-> <<>>,
                                               skipped |-> <<>>])} : TRUE
         IN  [dir |-> done.dir,
              response |->
                  IF done.saved = <<>> /\ done.skipped # <<>>
                  THEN Response(400, "error", done.saved, done.skipped)
                  ELSE Response(201, "ok", done.saved, done.skipped)]

\* Bounds: the files of one request
MaxFiles == 2

\* The values of the UPLOAD_TOKEN environment variable: not set, of 31, 32
\* and 33 characters, and of 32 characters with a blank after them
SecretsGiven ==
    {<<>>, Fill("a", 31), Fill("a", 32), Fill("a", 32) \o <<" ">>, Fill("a", 33)}

\* The tokens of the requests: a route segment is not empty
Tokens ==
    {Fill("a", 31), Fill("a", 32), Fill("a", 31) \o <<"b">>, Fill("a", 33)}

UploadedFiles ==
    {[filename |-> "", content |-> 1], [filename |-> "a.xlsx", content |-> 1],
     [filename |-> "../B.XLSX", content |-> 2], [filename |-> "c.txt", content |-> 1]}

FilesGiven == {None} \cup {List(items) : items \in SeqsUpTo(UploadedFiles, MaxFiles)}

InitUpload ==
    /\ df = <<>>
    /\ col_mapping = EmptyMap
    /\ filter_order = <<>>
    /\ session_state = EmptyMap
    /\ f = <<>>
    /\ selected_filters = EmptyMap
    /\ offered = EmptyMap
    /\ steps = <<>>
    /\ raised = FALSE
    /\ pc = "upload"
    /\ pre = EmptyMap
    /\ op = [name |-> "start"]
    /\ page = "none"
    /\ disk = EmptyMap
    /\ cache = EmptyMap
    /\ UPLOAD_TOKEN \in {StripToken(s) : s \in SecretsGiven}
    /\ result = None
    /\ uploads = <<>>

\* POST /upload/<token>
Upload ==
    /\ \E token \in Tokens, files \in FilesGiven :
         \E failing \in SUBSET (1 .. (IF files = None THEN 0 ELSE Len(files.items))) :
           \E r \in {upload_files(disk, token, files, failing)} :
             /\ disk' = r.dir
             /\ result' = r.response
             /\ op' = [name |-> "upload", token |-> token, files |-> files]
    /\ UNCHANGED <<uploads, UPLOAD_TOKEN, df, col_mapping, filter_order, session_state, f,
                   selected_filters, offered, steps, raised, pc, pre, page, cache>>

NextUpload == Upload

SpecUpload == InitUpload /\ [][NextUpload]_vars

\* C20: a request whose token is not 32 characters long or is not the
\* configured secret is answered 401 and leaves the upload directory as it
\* was; a request that gets any other answer has a token of 32 characters
\* equal to the secret, so with a secret of another length every request is
\* answered 401.
C20_OnlyTheSecretOf32 ==
    [][/\ op'.name = "upload"
       /\ (Len(op'.token) # 32 \/ op'.token # UPLOAD_TOKEN)
            => (result'.status = 401 /\ result'.saved = <<>> /\ disk' = disk)
       /\ Len(UPLOAD_TOKEN) # 32 => result'.status = 401
       /\ UPLOAD_TOKEN' = UPLOAD_TOKEN]_vars

\* The secret has 31 characters and a request with that very token and a
\* good file was answered 401
C20_Witness ==
    /\ op.name = "upload"
    /\ Len(UPLOAD_TOKEN) = 31 /\ op.token = UPLOAD_TOKEN
    /\ op.files = List(<<[filename |-> "a.xlsx", content |-> 1]>>)
    /\ result.status = 401
    /\ disk = EmptyMap

\* After an accepted upload a request with a token one character off was
\* answered 401 and the directory still holds the file
C20_RejectedAfterAccepted ==
    /\ op.name = "upload"
    /\ op.token = Fill("a", 31) \o <<"b">>
    /\ result.status = 401
    /\ DOMAIN disk = {"a.xlsx"}

\* Nothing is in the upload directory unless the secret has 32 characters
C20_NothingSavedWithoutSecret ==
    Len(UPLOAD_TOKEN) # 32 => disk = EmptyMap


\* The last request was let in and brought at least one file
Processed ==
    /\ op.name = "upload"
    /\ result.status # 401
    /\ op.files # None
    /\ op.files.items # <<>>

\* The file names of the request at the positions in S, in order
NamesAt(S) ==
    LET files == op.files.items
        pick == SelectSeq([i \in DOMAIN files |-> i], LAMBDA i : i \in S)
    IN  [k \in DOMAIN pick |-> files[pick[k]].filename]

C21_SaveFailedGoesOn ==
    /\ Processed
    /\ result.skipped = <<[filename |-> "a.xlsx", reason |-> "save/replace failed"]>>
    /\ result.saved = <<"B.XLSX">>

\* All files skipped: 400
C21_AllSkipped ==
    /\ Processed
    /\ Len(result.skipped) = 2 /\ result.saved = <<>>
    /\ result.status = 400


-----------------------------------------------------------------------------
(* SpecConcurrent: upload requests served at the same time (upload.py      *)
(* lines 70-88; the development server serves each request in a thread of  *)
(* its own).  disk is here the directory, paths -> inode, and the content  *)
(* of each inode; a content is the sequence of the chunks written, a chunk *)
(* <<p, k>> being the k-th chunk of the file of request p and <<0, 0>> a   *)
(* hole.  Each request brings one file.  A step is one file operation of   *)
(* one request.                                                            *)

\* Bounds: the chunks f.save copies per file
MaxChunks == 2

Uploaders == {1, 2}

\* dest.with_suffix(dest.suffix + ".uploading")
TmpDest(name) == name \o ".uploading"

\* The whole file of request p
Whole(p) == [k \in 1 .. MaxChunks |-> <<p, k>>]

\* A write of chunk c at offset k (counted from 0) into a content
WriteAt(content, k, c) ==
    [j \in 1 .. (IF Len(content) > k + 1 THEN Len(content) ELSE k + 1) |->
       IF j = k + 1 THEN c
       ELSE IF j <= Len(content) THEN content[j] ELSE <<0, 0>>]

\* A path leaves the directory
Unlink(paths, path) == [x \in DOMAIN paths \ {path} |-> paths[x]]

InitConcurrent ==
    /\ df = <<>>
    /\ col_mapping = EmptyMap
    /\ filter_order = <<>>
    /\ session_state = EmptyMap
    /\ f = <<>>
    /\ selected_filters = EmptyMap
    /\ offered = EmptyMap
    /\ steps = <<>>
    /\ raised = FALSE
    /\ pc = "serve"
    /\ pre = EmptyMap
    /\ op = [name |-> "start"]
    /\ page = "none"
    /\ disk = [paths |-> EmptyMap, inodes |-> EmptyMap, by |-> EmptyMap]
    /\ cache = EmptyMap
    /\ UPLOAD_TOKEN = Fill("a", TokenLen)
    /\ result = None
    /\ uploads \in [Uploaders ->
                      {[at |-> "save", name |-> n, fd |-> 0, offset |-> 0,
                        outcome |-> "none"] : n \in {"a.xlsx", "b.xlsx"}}]

Others ==
    UNCHANGED <<UPLOAD_TOKEN, result, df, col_mapping, filter_order, session_state,
                f, selected_filters, offered, steps, raised, pc, pre, page, cache>>

\* f.save(tmp_dest) opens the temporary file for writing: the file of that
\* name is created, or emptied when it is there
OpenTmp(p) ==
    /\ uploads[p].at = "save"
    /\ LET tmp == TmpDest(uploads[p].name)
           inode == IF tmp \in DOMAIN disk.paths THEN disk.paths[tmp] ELSE p
       IN  /\ disk' = [disk EXCEPT !.paths = Put(@, tmp, inode),
                                   !.inodes = Put(@, inode, <<>>)]
           /\ uploads' = [uploads EXCEPT ![p].at = "write", ![p].fd = inode]
    /\ op' = [name |-> "open", p |-> p]
    /\ Others

\* f.save copies the next chunk at the writer's own offset
WriteChunk(p) ==
    /\ uploads[p].at = "write"
    /\ uploads[p].offset < MaxChunks
    /\ disk' = [disk EXCEPT !.inodes[uploads[p].fd] =
                  WriteAt(@, uploads[p].offset, <<p, uploads[p].offset + 1>>)]
    /\ uploads' = [uploads EXCEPT ![p].offset = @ + 1]
    /\ op' = [name |-> "write", p |-> p]
    /\ Others

\* f.save returns: the file is closed
CloseTmp(p) ==
    /\ uploads[p].at = "write"
    /\ uploads[p].offset = MaxChunks
    /\ uploads' = [uploads EXCEPT ![p].at = "replace"]
    /\ op' = [name |-> "close", p |-> p]
    /\ UNCHANGED disk
    /\ Others

\* os.replace(tmp_dest, dest): the destination becomes the temporary file,
\* or FileNotFoundError when the temporary file is not there
Replace(p) ==
    /\ uploads[p].at = "replace"
    /\ LET name == uploads[p].name
           tmp == TmpDest(name)
       IN  IF tmp \in DOMAIN disk.paths
           THEN /\ disk' = [disk EXCEPT
                              !.paths = Unlink(Put(@, name, disk.paths[tmp]), tmp),
                              !.by = Put(@, name, p)]
                /\ uploads' = [uploads EXCEPT ![p].at = "done",
                                              ![p].outcome = "saved"]
           ELSE /\ UNCHANGED disk
                /\ uploads' = [uploads EXCEPT ![p].at = "cleanup"]
    /\ op' = [name |-> "replace", p |-> p]
    /\ Others

\* except: if tmp_dest.exists(): tmp_dest.unlink(); the file is skipped
Cleanup(p) ==
    /\ uploads[p].at = "cleanup"
    /\ disk' = [disk EXCEPT !.paths = Unlink(@, TmpDest(uploads[p].name))]
    /\ uploads' = [uploads EXCEPT ![p].at = "done", ![p].outcome = "skipped"]
    /\ op' = [name |-> "cleanup", p |-> p]
    /\ Others

NextConcurrent ==
    \E p \in Uploaders :
        \/ OpenTmp(p)
        \/ WriteChunk(p)
        \/ CloseTmp(p)
        \/ Replace(p)
        \/ Cleanup(p)

SpecConcurrent == InitConcurrent /\ [][NextConcurrent]_vars

\* The destinations in the directory
Destinations == DOMAIN disk.paths \cap {"a.xlsx", "b.xlsx"}

\* C22: whatever the interleaving, a destination holds the whole content of
\* one upload, the last that renamed its temporary file onto it, and no
\* request is still writing the file that is at the destination.
C22_DestinationIsOneWholeUpload ==
    \A name \in Destinations :
        /\ disk.inodes[disk.paths[name]] = Whole(disk.by[name])
        /\ \A p \in Uploaders :
             uploads[p].at = "write" => uploads[p].fd # disk.paths[name]

\* It does for requests that bring files of different names
C22_DifferentNames ==
    uploads[1].name # uploads[2].name =>
        \A name \in Destinations :
            /\ disk.inodes[disk.paths[name]] = Whole(disk.by[name])
            /\ \A p \in Uploaders :
                 uploads[p].at = "write" => uploads[p].fd # disk.paths[name]

\* Both requests are done and the destination holds chunks of both files
C22_MixedContent ==
    /\ \A p \in Uploaders : uploads[p].at = "done"
    /\ "a.xlsx" \in Destinations
    /\ disk.inodes[disk.paths["a.xlsx"]] = << <<1, 1>>, <<2, 2>> >>

\* A request renamed the temporary file while the other was writing it
C22_RenamedWhileWritten ==
    /\ op.name = "replace"
    /\ "a.xlsx" \in Destinations
    /\ \E p \in Uploaders :
         uploads[p].at = "write" /\ uploads[p].fd = disk.paths["a.xlsx"]


\* The sizes of the files of a batch, and their sum
BatchSizes(batch) == [k \in DOMAIN batch |-> batch[k].st_size]

\* C23: in the batches pack_batches_by_size returns, a file larger than the
\* limit is alone in its batch, a batch of several files has a total size of
\* at most the limit, and a batch is closed only by a file that did not fit
\* it or by a file larger than the limit.
C23_BatchesWithinLimit ==
    Called("pack_batches_by_size") =>
        /\ \A b \in DOMAIN result :
             /\ (\E k \in DOMAIN result[b] : 2 * result[b][k].st_size > op.max_batch_mb)
                  => Len(result[b]) = 1
             /\ Len(result[b]) > 1 => 2 * SeqSum(BatchSizes(result[b])) <= op.max_batch_mb
        /\ \A b \in DOMAIN result \ {Len(result)} :
             \/ 2 * result[b][1].st_size > op.max_batch_mb
             \/ 2 * result[b + 1][1].st_size > op.max_batch_mb
             \/ 2 * (SeqSum(BatchSizes(result[b])) + result[b + 1][1].st_size)
                  > op.max_batch_mb

\* Sizes 2, 2, 5 under a limit of 4 (the 10, 10 and 25 MB under 20 MB of
\* the example, in units of 5 MB) come back as [2, 2] and [5]
C23_Witness ==
    /\ Called("pack_batches_by_size")
    /\ BatchSizes(op.files) = <<2, 2, 5>>
    /\ op.max_batch_mb = 8
    /\ [b \in DOMAIN result |-> BatchSizes(result[b])] = << <<2, 2>>, <<5>> >>

RECURSIVE Concat(_)
Concat(seqs) == IF seqs = <<>> THEN <<>> ELSE Head(seqs) \o Concat(Tail(seqs))

\* C30: the batches, one after the other, are the files given that are
\* still there, in the order given; no file is in two batches and no batch
\* is empty.
C30_PartitionInOrder ==
    Called("pack_batches_by_size") =>
        /\ Concat(result) = SelectSeq(op.files, LAMBDA file : file.exists)
        /\ \A b \in DOMAIN result : result[b] # <<>>
        /\ Cardinality(Range(Concat(result))) = Len(Concat(result))

\* A file larger than the limit comes first, a file that is gone second
C30_Witness ==
    /\ Called("pack_batches_by_size")
    /\ Len(op.files) = 3
    /\ op.files[1].st_size = 5 /\ op.max_batch_mb = 4
    /\ ~op.files[2].exists
    /\ [b \in DOMAIN result |-> BatchSizes(result[b])] = << <<5>>, <<1>> >>


-----------------------------------------------------------------------------
(* SpecClient: one run of the batch client (myupload.py main) from the     *)
(* packing of the batches to the exit of the process, one request a step.  *)
(* A request is answered by the upload service (201 with the saved and     *)
(* skipped names, 400 when every file was skipped, 401 as an HTML page),   *)
(* or fails in the connection, or is never sent because a file of the      *)
(* batch can no longer be opened.                                          *)

\* The name a file is sent under (p.name)
FileName(p) == p.path

RECURSIVE FileNames(_)
FileNames(batch) ==
    IF batch = <<>> THEN <<>>
    ELSE <<FileName(Head(batch))>> \o FileNames(Tail(batch))

\* skipped.append({"filename": ..., "reason": ...}) of the service
RECURSIVE SkippedOf(_, _)
SkippedOf(names, reason) ==
    IF names = <<>> THEN <<>>
    ELSE <<[filename |-> Head(names), reason |-> reason]>>
         \o SkippedOf(Tail(names), reason)

\* What the service answers to a request with these files
Responses(batch) ==
    LET names == FileNames(batch)
    IN  {[status_code |-> 201,
          json |-> [status |-> "ok", saved |-> names, skipped |-> <<>>]],
         [status_code |-> 400,
          json |-> [status |-> "error", saved |-> <<>>,
                    skipped |-> SkippedOf(names, "extension not allowed")]],
         [status_code |-> 401, json |-> None]}
    \cup (IF Len(names) < 2 THEN {}
          ELSE {[status_code |-> 201,
                 json |-> [status |-> "ok", saved |-> Tail(names),
                           skipped |-> SkippedOf(<<Head(names)>>, "save failed")]]})

\* What can happen to one call of post_batch
Worlds(batch) ==
    {[happens |-> "open fails"], [happens |-> "request fails"]}
    \cup {[happens |-> "response", resp |-> r] : r \in Responses(batch)}

\* str(data1): the text of an error, as recorded in the skipped list
ErrorText(data) == [t |-> "str", of |-> data]

\* resp.ok and isinstance(data, dict) and data.get("status") in {"ok",
\* "success"} or resp.status_code in (200, 201)
post_ok(resp, data) ==
    \/ /\ resp.status_code < 400
       /\ "status" \in DOMAIN data
       /\ data.status \in {"ok", "success"}
    \/ resp.status_code \in {200, 201}

\* post_batch: (ok, data), or the exception of open(p, "rb")
post_batch(batch, world) ==
    IF world.happens = "open fails"
    THEN [raises |-> TRUE]
    ELSE IF world.happens = "request fails"
    THEN [raises |-> FALSE, ok |-> FALSE, data |-> [error |-> "request failed"]]
    ELSE LET data == IF world.resp.json = None
                     THEN [error |-> "non-JSON response",
                           status_code |-> world.resp.status_code]
                     ELSE world.resp.json
         IN  [raises |-> FALSE, ok |-> post_ok(world.resp, data), data |-> data]

\* data.get(key, [])
get(data, key) == IF key \in DOMAIN data THEN data[key] ELSE <<>>

\* the files re-sent after the request of their batch failed:
\* for p in batch, each once
TwiceEach(batch) == batch \o batch
one_by_one(batch) == batch

ClientFiles ==
    {[i \in 1..Len(sizes) |->
        [path |-> i, exists |-> sizes[i] >= 0, st_size |-> sizes[i]]] :
     sizes \in (SeqsUpTo({1, 2}, MaxPacked) \ {<<>>}) \cup {<<-1>>, <<1, -1>>}}

InitClient ==
    /\ df = <<>>
    /\ col_mapping = EmptyMap
    /\ filter_order = <<>>
    /\ session_state = EmptyMap
    /\ f = <<>>
    /\ selected_filters = EmptyMap
    /\ offered = EmptyMap
    /\ steps = <<>>
    /\ raised = FALSE
    /\ pc = "batch"
    /\ pre = EmptyMap
    /\ \E files \in ClientFiles, max_batch_mb \in {6} :
         op = [name |-> "main", files |-> files, max_batch_mb |-> max_batch_mb,
               batches |-> pack_batches_by_size(files, max_batch_mb)]
    /\ page = "none"
    /\ disk = EmptyMap
    /\ cache = EmptyMap
    /\ UPLOAD_TOKEN = Fill("a", TokenLen)
    /\ result = None
    /\ uploads = [i |-> 1, j |-> 1, again |-> <<>>, posts |-> <<>>,
                  all_saved |-> <<>>, all_skipped |-> <<>>]

ClientOthers ==
    UNCHANGED <<UPLOAD_TOKEN, df, col_mapping, filter_order, session_state,
                f, selected_filters, offered, steps, pre, op, page, disk, cache>>

\* The record of one call of post_batch
Post(batch, one, out) ==
    IF out.raises THEN [batch |-> batch, one |-> one, sent |-> FALSE]
    ELSE [batch |-> batch, one |-> one, sent |-> TRUE, ok |-> out.ok,
          data |-> out.data]

\* the position after batch i is finished: the next batch, or the summary
AfterBatch(i) == IF i < Len(op.batches) THEN "batch" ELSE "summary"

\* for i, batch in enumerate(batches, 1): post_batch(session, url, batch)
PostBatch ==
    /\ pc = "batch"
    /\ uploads.i <= Len(op.batches)
    /\ \E world \in Worlds(op.batches[uploads.i]) :
         \E out \in {post_batch(op.batches[uploads.i], world)} :
           /\ raised' = out.raises
           /\ pc' = IF out.raises THEN "exit"
                    ELSE IF out.ok THEN AfterBatch(uploads.i) ELSE "retry"
           /\ uploads' =
                IF out.raises
                THEN [uploads EXCEPT !.posts = Append(@, Post(op.batches[uploads.i], FALSE, out))]
                ELSE IF out.ok
                THEN [uploads EXCEPT
                        !.posts = Append(@, Post(op.batches[uploads.i], FALSE, out)),
                        !.all_saved = @ \o get(out.data, "saved"),
                        !.all_skipped = @ \o get(out.data, "skipped"),
                        !.i = @ + 1]
                ELSE [uploads EXCEPT
                        !.posts = Append(@, Post(op.batches[uploads.i], FALSE, out)),
                        !.again = one_by_one(op.batches[uploads.i]),
                        !.j = 1]
    /\ result' = result
    /\ ClientOthers

\* no batch at all: the loop is not entered
NoBatch ==
    /\ pc = "batch"
    /\ uploads.i > Len(op.batches)
    /\ pc' = "summary"
    /\ UNCHANGED <<uploads, result, raised>>
    /\ ClientOthers

\* for p in batch: post_batch(session, url, [p])
PostOne ==
    /\ pc = "retry"
    /\ LET p == uploads.again[uploads.j]
           last == uploads.j = Len(uploads.again)
       IN  \E world \in Worlds(<<p>>) :
             \E out \in {post_batch(<<p>>, world)} :
               /\ raised' = out.raises
               /\ pc' = IF out.raises THEN "exit"
                        ELSE IF last THEN AfterBatch(uploads.i) ELSE "retry"
               /\ uploads' =
                    IF out.raises
                    THEN [uploads EXCEPT !.posts = Append(@, Post(<<p>>, TRUE, out))]
                    ELSE [uploads EXCEPT
                            !.posts = Append(@, Post(<<p>>, TRUE, out)),
                            !.all_saved =
                                IF out.ok THEN @ \o get(out.data, "saved") ELSE @,
                            !.all_skipped =
                                IF out.ok THEN @ \o get(out.data, "skipped")
                                ELSE Append(@, [filename |-> FileName(p),
                                                reason |-> ErrorText(out.data)]),
                            !.j = IF last THEN 1 ELSE @ + 1,
                            !.i = IF last THEN @ + 1 ELSE @]
    /\ result' = result
    /\ ClientOthers

\* print("===== SUMMARY ====="), the counts, and the end of main
Summary ==
    /\ pc = "summary"
    /\ pc' = "exit"
    /\ result' = [saved |-> Len(uploads.all_saved),
                  skipped |-> Len(uploads.all_skipped)]
    /\ UNCHANGED <<uploads, raised>>
    /\ ClientOthers

NextClient ==
    \/ PostBatch
    \/ NoBatch
    \/ PostOne
    \/ Summary

SpecClient == InitClient /\ [][NextClient]_vars

\* Every request returns or fails within its timeout, and the loops are
\* for loops over lists: the process goes on until it exits
SpecClientRuns == SpecClient /\ WF_vars(NextClient)


\* The calls of post_batch whose request was sent, and those that carried p
Sent == {k \in DOMAIN uploads.posts : uploads.posts[k].sent}
Carrying(p) ==
    {k \in Sent : \E n \in DOMAIN uploads.posts[k].batch :
                     uploads.posts[k].batch[n] = p}

\* The calls that returned not ok, for a whole batch and for one file
FailedBatches == {k \in Sent : ~uploads.posts[k].one /\ ~uploads.posts[k].ok}
FailedFiles == {k \in Sent : uploads.posts[k].one /\ ~uploads.posts[k].ok}

\* The files of a failed batch were re-sent one by one, a file that failed
\* again is in the skipped list with the text of its error, and every batch
\* was tried
RetriedAndRecorded ==
    /\ \A k \in FailedBatches :
         \A n \in DOMAIN uploads.posts[k].batch :
           \E again \in Sent :
             /\ again > k
             /\ uploads.posts[again].one
             /\ uploads.posts[again].batch = <<uploads.posts[k].batch[n]>>
    /\ \A k \in FailedFiles :
         \E n \in DOMAIN uploads.all_skipped :
           uploads.all_skipped[n] =
             [filename |-> FileName(uploads.posts[k].batch[1]),
              reason |-> ErrorText(uploads.posts[k].data)]
    /\ \A b \in DOMAIN op.batches :
         \E k \in Sent : ~uploads.posts[k].one
                         /\ uploads.posts[k].batch = op.batches[b]

\* C24: when the client has exited, the files of every failed batch were
\* re-sent one by one, every file that failed again is in the skipped list
\* with its error text, every batch was tried, no exception ended the run
\* and the summary was printed.
C24_RetriedAndSummaryReached ==
    (op.name = "main" /\ pc = "exit") =>
        /\ ~raised
        /\ result # None
        /\ RetriedAndRecorded

\* A run that ended with the exception of open(p, "rb") before its summary,
\* with a batch still to send
C24_AbortedWithoutSummary ==
    /\ op.name = "main"
    /\ pc = "exit"
    /\ raised
    /\ result = None
    /\ uploads.i < Len(op.batches)
    /\ FailedFiles # {}

\* As long as every file can be opened when it is sent, the run ends with
\* its summary and the files of failed batches re-sent and recorded
C24_SummaryWhenFilesOpen ==
    (op.name = "main" /\ pc = "exit" /\ Sent = DOMAIN uploads.posts) =>
        /\ ~raised
        /\ result = [saved |-> Len(uploads.all_saved),
                     skipped |-> Len(uploads.all_skipped)]
        /\ RetriedAndRecorded

\* A run that reached its summary after a batch failed, one of its files
\* failed again and a later batch was sent
C24_SummaryAfterFailures ==
    /\ op.name = "main"
    /\ pc = "exit"
    /\ result # None
    /\ \E k \in FailedFiles : \E later \in Sent : later > k /\ ~uploads.posts[later].one

\* The files the batches hold
Packed ==
    UNION {{op.batches[b][n] : n \in DOMAIN op.batches[b]} : b \in DOMAIN op.batches}

\* Each file went out in at most two requests, once in its batch and at
\* most once on its own, with nothing after the request on its own; the
\* requests are no more than the batches and the files together
SentAtMostTwice ==
    /\ \A p \in Packed :
         /\ Cardinality(Carrying(p)) <= 2
         /\ Cardinality({k \in Carrying(p) : uploads.posts[k].one}) <= 1
         /\ \A k \in Carrying(p) :
              uploads.posts[k].one => \A later \in Carrying(p) : later <= k
    /\ Cardinality(Sent) <= Len(op.batches) + Cardinality(Packed)
    /\ Len(uploads.posts) <= Len(op.batches) + Cardinality(Packed)

\* C28: the client sends each file at most twice, once in its batch and at
\* most once on its own after the batch failed, never again after that, so
\* at most as many requests as batches and files together; and whatever
\* fails, the run comes to its end.
C28_AtMostTwiceAndTerminates ==
    /\ [](op.name = "main" => SentAtMostTwice)
    /\ <>(pc = "exit")

\* A run at its end in which every file went out twice and the requests
\* were as many as the batches and the files together
C28_Witness ==
    /\ op.name = "main"
    /\ pc = "exit"
    /\ Len(op.batches) = 2
    /\ \A p \in Packed : Cardinality(Carrying(p)) = 2
    /\ Cardinality(Sent) = Len(op.batches) + Cardinality(Packed)


-----------------------------------------------------------------------------
(* The shared dataframe CSS over a session (Spec).                         *)

\* inject_global_dataframe_css() on session state ss calls st.markdown with
\* the CSS when the flag is not set
CssEmitted(ss) == ~Truthy(Get(ss, "_global_df_css_injected"))

\* The session state page p's script hands to inject_global_dataframe_css,
\* from the state ss the run starts with
AtInject(p, ss) ==
    IF p = "home" THEN ss ELSE setup_page(ss, PageTitle(p), Str(PageKey(p)), None)

\* The CSS went out in an earlier run of the session, and in the last one
EmittedBefore == Truthy(Get(pre, "_global_df_css_injected"))
EmittedNow == pc # "start" /\ CssEmitted(AtInject(page, pre))

\* C27: the shared dataframe CSS is emitted once per user session: over any
\* sequence of page renders and page switches, a run of a page emits the
\* CSS only if no earlier run of the session did.
C27_CssEmittedOncePerSession ==
    EmittedNow => ~EmittedBefore

\* The CSS goes out a second time in a session: a dashboard opened after
\* another page of the same session that had emitted it
C27_EmittedAgain ==
    /\ EmittedNow
    /\ EmittedBefore
    /\ op.name = "open"
    /\ op.from \in Pages \ {page}

\* The CSS is emitted again only by a run that reset the session because
\* the page changed; reruns, edits and refreshes of a page do not emit it
C27_AgainOnlyAfterReset ==
    (EmittedNow /\ EmittedBefore) =>
        /\ page \in Dashboards
        /\ op.name = "open"
        /\ Get(pre, "_cfg_current_page_key") # Str(PageKey(page))

\* A run that did not emit the CSS because the session had it
C27_NotEmittedAgain ==
    /\ EmittedBefore
    /\ ~EmittedNow
    /\ op.name = "open"
    /\ page = "home"


-----------------------------------------------------------------------------
(* SpecRender: the dashboards rendered one after another in a session      *)
(* while the data files change: a file is removed, or replaced by a file   *)
(* that cannot be read, by a sheet without rows, or by its sheet of data.  *)
(* result holds what the last run of a page's script did.                  *)

\* get_data_path(filename): the path, or FileNotFoundError
get_data_path(files, filename, sheet) ==
    IF filename \notin DOMAIN files
    THEN [raised |-> TRUE]
    ELSE [raised |-> FALSE, DATA_PATH |-> filename, SHEET |-> sheet]

\* School_Dashboard: attended = f.loc[mask_present] if not f.empty else f
attended(table, columns, RES) ==
    LET att_col == Get(RES, "screen_attend")
    IN  IF table = <<>> THEN table
        ELSE IF ~_col_present(columns, att_col) THEN <<>>
        ELSE SelectSeq(table,
                       LAMBDA r : lower(strip(astype_str(r[att_col.v]))) = "present")

\* What a page's script does once the filters returned subset F: how the
\* run ends, whether a no-data notice is shown, and what is computed from F
Body(p, F, columns, RES) ==
    CASE p = "cataract" ->
           IF F = <<>>
           THEN [end |-> "stopped", notice |-> TRUE, N |-> None, aggregated |-> {}]
           ELSE [end |-> "done", notice |-> FALSE, N |-> Num(Len(F)),
                 aggregated |-> {"key metrics", "distributions", "sex-wise tables"}]
      [] p = "pec" ->
           [end |-> "done", notice |-> F = <<>>, N |-> Num(Len(F)),
            aggregated |-> {"key metrics"}
                           \cup (IF F = <<>> THEN {}
                                 ELSE {"demographics", "refraction", "wgss",
                                       "clinical", "sex-wise tables"})]
      [] p = "school" ->
           [end |-> "done", notice |-> attended(F, columns, RES) = <<>>,
            N |-> Num(Len(F)),
            aggregated |-> {"key metrics"}
                           \cup (IF attended(F, columns, RES) = <<>> THEN {}
                                 ELSE {"demographics", "clinical", "myopia",
                                       "referral"})]

\* The run from the load ld and the filters' result r on
AfterLoad(p, none, ld, r) ==
    IF ld.stopped
    THEN [none EXCEPT !.cache = ld.cache, !.error = TRUE] @@ [end |-> "stopped"]
    ELSE IF r.raised
    THEN [none EXCEPT !.ss = r.ss, !.cache = ld.cache, !.loaded = TRUE]
         @@ [end |-> "exception"]
    ELSE LET b == Body(p, r.subset, ld.columns, ld.RES)
         IN  [ss |-> r.ss, cache |-> ld.cache, f |-> r.subset, loaded |-> TRUE,
              error |-> FALSE, notice |-> b.notice, N |-> b.N,
              aggregated |-> b.aggregated, end |-> b.end]

\* One run of dashboard p's script: the session and the memo it leaves,
\* the filtered table, and what the run showed
PageRun(p, ss, files, memo) ==
    LET ss2 == inject_global_dataframe_css(
                   setup_page(ss, PageTitle(p), Str(PageKey(p)), None))
        path == get_data_path(files, DataFile(p), 0)
        none == [ss |-> ss2, cache |-> memo, f |-> <<>>, loaded |-> FALSE,
                 error |-> FALSE, notice |-> FALSE, N |-> None, aggregated |-> {}]
    IN  IF path.raised
        THEN none @@ [end |-> "exception"]
        ELSE
        CHOOSE out \in
          UNION {{AfterLoad(p, none, ld, r) :
                  r \in {dynamic_sidebar_filters(ld.df, ld.columns, ld.RES,
                                                 filters(p), ss2, FALSE)}} :
                 ld \in {load_df_or_stop(files, memo, path.DATA_PATH, path.SHEET,
                                         CANDIDATES(p), "date")}} : TRUE

\* The sheet of a data file emptied of its rows
WithoutRows(sheet) == [sheet EXCEPT !.rows = <<>>]

\* What a data file can be replaced by
FilesFor(path) ==
    {[mtime |-> 1, sheet |-> s] :
     s \in {None, SessionDisk[path].sheet, WithoutRows(SessionDisk[path].sheet)}}

InitRender ==
    /\ df = <<>>
    /\ col_mapping = EmptyMap
    /\ filter_order = <<>>
    /\ session_state = EmptyMap
    /\ f = <<>>
    /\ selected_filters = EmptyMap
    /\ offered = EmptyMap
    /\ steps = <<>>
    /\ raised = FALSE
    /\ pc = "start"
    /\ pre = EmptyMap
    /\ op = [name |-> "init"]
    /\ page = "none"
    /\ disk = SessionDisk
    /\ cache = EmptyMap
    /\ UPLOAD_TOKEN = <<>>
    /\ result = None
    /\ uploads = <<>>

RenderOthers ==
    UNCHANGED <<df, col_mapping, filter_order, selected_filters, offered, steps,
                pre, UPLOAD_TOKEN, uploads>>

\* The user opens a dashboard, or reloads the one on screen
RenderPage ==
    \E p \in Dashboards :
      \E r \in {PageRun(p, session_state, disk, cache)} :
        /\ page' = p
        /\ session_state' = r.ss
        /\ cache' = r.cache
        /\ f' = r.f
        /\ raised' = (r.end = "exception")
        /\ pc' = r.end
        /\ result' = [loaded |-> r.loaded, error |-> r.error, notice |-> r.notice,
                      N |-> r.N, aggregated |-> r.aggregated]
        /\ op' = [name |-> "render", files |-> disk]
        /\ disk' = disk
        /\ RenderOthers

\* A data file is removed
RemoveFile ==
    \E path \in DOMAIN disk :
        /\ disk' = Restrict(disk, DOMAIN disk \ {path})
        /\ op' = [name |-> "remove"]
        /\ UNCHANGED <<page, session_state, cache, f, raised, pc, result>>
        /\ RenderOthers

\* A data file is written: unreadable, without rows, or with its data
WriteDataFile ==
    \E path \in DOMAIN SessionDisk :
      \E file \in FilesFor(path) :
        /\ Get(disk, path) # file
        /\ disk' = Put(disk, path, file)
        /\ op' = [name |-> "write"]
        /\ UNCHANGED <<page, session_state, cache, f, raised, pc, result>>
        /\ RenderOthers

\* The user presses Refresh: st.cache_data.clear()
ClearMemo ==
    /\ cache # EmptyMap
    /\ cache' = EmptyMap
    /\ op' = [name |-> "refresh"]
    /\ UNCHANGED <<page, session_state, disk, f, raised, pc, result>>
    /\ RenderOthers

NextRender == RenderPage \/ RemoveFile \/ WriteDataFile \/ ClearMemo

SpecRender == InitRender /\ [][NextRender]_vars


\* The last step was a run of the page on screen, whose data file was not
\* there, or was there and could not be read
RenderedNow == op.name = "render" /\ page \in Dashboards
FileMissing == DataFile(page) \notin DOMAIN disk
FileUnreadable == DataFile(page) \in DOMAIN disk /\ Unreadable(disk[DataFile(page)])

\* The run showed its error and stopped, and nothing after the load ran
StoppedWithError ==
    /\ pc = "stopped"
    /\ ~raised
    /\ result.error
    /\ ~result.loaded
    /\ ~result.notice
    /\ result.aggregated = {}

\* C25: when the data file of a page is not found or cannot be read, the
\* run of the page shows an error message and stops through st.stop(): no
\* exception leaves the script and nothing after the load is rendered.
C25_MissingDataStopsThePage ==
    (RenderedNow /\ (FileMissing \/ FileUnreadable)) => StoppedWithError

\* A page whose data file is not there ends with the FileNotFoundError of
\* get_data_path, without an error message of the page
C25_MissingFileRaises ==
    /\ RenderedNow
    /\ FileMissing
    /\ pc = "exception"
    /\ raised
    /\ ~result.error

\* A file that is there and cannot be read stops the page with its error
\* message, unless an earlier load of that file is still memoized
C25_UnreadableStopsThePage ==
    (RenderedNow /\ FileUnreadable /\ <<DataFile(page), 0>> \notin DOMAIN cache)
        => StoppedWithError

C25_StoppedWithError ==
    /\ RenderedNow
    /\ FileUnreadable
    /\ StoppedWithError

\* The filters of the last run returned no row
EmptySubset == RenderedNow /\ result.loaded /\ pc # "exception" /\ f = <<>>

\* C26: when the filtered subset is empty, a dashboard page shows a no-data
\* notice and computes nothing from the subset: no metric counts, category
\* counts or cross-tabulations.
C26_EmptySubsetNoAggregation ==
    EmptySubset => result.notice /\ result.aggregated = {}

\* The Primary Eye Care page computing its key metrics from no row
C26_MetricsOfNothing ==
    /\ EmptySubset
    /\ page = "pec"
    /\ result.notice
    /\ result.N = Num(0)
    /\ "key metrics" \in result.aggregated

\* Every page shows the notice for an empty subset, and the Cataract page
\* stops there
C26_NoticeShown ==
    EmptySubset =>
        /\ result.notice
        /\ page = "cataract" => pc = "stopped" /\ result.aggregated = {}
        /\ result.aggregated \subseteq {"key metrics"}

C26_CataractStopped ==
    /\ EmptySubset
    /\ page = "cataract"
    /\ pc = "stopped"

=============================================================================
